---- MODULE Spec2Model ----
(***************************************************************************)
(* Model of the documentation scraper's core: the document index and its  *)
(* search (src/indexer), the local cache (src/cache), the tool interface   *)
(* (src/tools: parameter validation and execute) and the dispatcher of     *)
(* the server (src/server.py).                                             *)
(*                                                                         *)
(* Representation of Python values:                                        *)
(*   - searchable text (title, content, summary, query) is a sequence of   *)
(*     one-character strings, so that lower() and `in` are computed;        *)
(*   - identifiers whose characters never matter (urls, cache keys, tool,  *)
(*     capability and parameter names) are atomic strings;                 *)
(*   - a dict is a function from its keys; a list is a sequence;           *)
(*   - None is its own value for each kind of slot (None for a str slot,   *)
(*     NoneDict for a dict slot), different from every value of that kind. *)
(***************************************************************************)
EXTENDS Integers, Sequences, FiniteSets, TLC

VARIABLES
    indexFile,      \* parsed content of cache/document_index.json (a list of entries)
    indexFileOk,    \* whether that file exists and parses as JSON
    indexFileExists,\* whether that file exists
    fileIO,         \* index_document, search: the outcome of the call's file operations
    op,             \* the operation that ran last
    data,           \* index_document: its argument
    ret,            \* index_document: its return value
    query,          \* search: its query argument
    max_results,    \* search: its max_results argument
    results,        \* search: the list it returned
    retPos,         \* search: for each result, the position of its entry in the index
    exc,            \* the exception that escaped the last operation ("" when none)
    cache,          \* LocalCache.cache, the in-memory dict
    cacheFile,      \* parsed content of cache/local_cache.json
    cacheFileOk,    \* whether that file exists and parses as JSON
    doc_id,         \* cache operations: the key argument
    cached,         \* cache operations: cache_document's data / get_document's return
    putKeys,        \* keys given to cache_document since the last completed clear_cache
    prevCall,       \* cache operations: the operation before the last, with its key and value
    tool,           \* validate_parameters: the tool it is called on
    capability_name,\* validate_parameters: its capability_name argument
    parameters,     \* validate_parameters: its parameters argument
    valid,          \* validate_parameters: its return value
    implementation, \* execute: how the operation it routes to is implemented
    calls,          \* execute: the capability operations it invoked, in order
    raised,         \* execute: the exception raised inside its try block (NoneDict when none)
    toolResult,     \* execute: the ToolResult it returned
    tool_call,      \* call_tool: its argument, a tool name and an arguments dict
    handled,        \* call_tool: the handlers it invoked, in order
    steps,          \* call_tool: the calls the handler made to the components, in order
    fault,          \* call_tool: the exception raised inside its try block (NoneDict when none)
    response,       \* call_tool: the ToolResponse it returned
    document_id,    \* DocumentIndexer.get_document, delete_document, update_document: the id argument
    lookup_result,  \* DocumentIndexer.get_document: its return value (NoneDict for None)
    cacheDirExists, \* whether the directory cache/ exists
    healthy,        \* is_healthy: its return value
    healthFault,    \* is_healthy: whether os.path.exists raised inside it
    pc,             \* concurrent callers: for each caller, the statement it has reached
    frame           \* concurrent callers: for each caller, the local variables of its call

indexVars == <<indexFile, indexFileOk, indexFileExists, fileIO, data, ret, query, max_results, results, retPos>>
cacheVars == <<cache, cacheFile, cacheFileOk, doc_id, cached, putKeys, prevCall>>
execVars == <<implementation, calls, raised, toolResult>>
toolVars == <<tool, capability_name, parameters, valid, execVars>>
serverVars == <<tool_call, handled, steps, fault, response>>
lookupVars == <<document_id, lookup_result>>
healthVars == <<cacheDirExists, healthy, healthFault>>
procVars == <<pc, frame>>
vars == <<indexVars, cacheVars, toolVars, serverVars, lookupVars, healthVars, procVars, op, exc>>

(***************************************************************************)
(* Bounds of the model.                                                    *)
(***************************************************************************)
MaxIndex == 3       \* longest index the model builds
MaxN == 2           \* largest max_results tried besides the default
MaxParams == 2      \* most keys in a parameters dict

(***************************************************************************)
(* Python values and helpers.                                              *)
(***************************************************************************)
None == "None"
NoneDict == [None |-> TRUE]

\* dict.get(key, default)
Get(d, key, default) == IF key \in DOMAIN d THEN d[key] ELSE default

Min(a, b) == IF a < b THEN a ELSE b
Max(a, b) == IF a > b THEN a ELSE b

\* str.lower() on the model's alphabet
CharLower(c) ==
    CASE c = "A" -> "a" [] c = "B" -> "b" [] c = "N" -> "n" [] c = "T" -> "t" [] OTHER -> c
Lower(s) == [i \in 1..Len(s) |-> CharLower(s[i])]

\* `needle in hay` for two str
Contains(needle, hay) ==
    \E off \in 0..(Len(hay) - Len(needle)) :
        \A k \in 1..Len(needle) : hay[off + k] = needle[k]

\* lst[:n + 1]: the cut taken one element too far
SliceOneMore(lst, n) ==
    IF n + 1 >= 0 THEN SubSeq(lst, 1, Min(n + 1, Len(lst)))
    ELSE SubSeq(lst, 1, Max(Len(lst) + n + 1, 0))

\* lst[:n]
Slice(lst, n) ==
    IF n >= 0 THEN SubSeq(lst, 1, Min(n, Len(lst)))
    ELSE SubSeq(lst, 1, Max(Len(lst) + n, 0))

(***************************************************************************)
(* Inputs.                                                                 *)
(***************************************************************************)
Titles == {<<"A", "b">>, <<"b">>}
Contents == {<<"a">>, <<"B">>}
Queries == {<<>>, <<"a">>, <<"A", "B">>}

\* Documents handed to index_document: with every field, without a url,
\* with an empty url, without title and content.
Docs ==
    [url : {"u1"}, title : Titles, content : Contents]
    \cup [url : {"u2"}, title : Titles, content : {<<"a">>}]
    \cup {[title |-> <<"A", "b">>, content |-> <<"a">>]}
    \cup {[url |-> "", title |-> <<"b">>, content |-> <<"a">>]}
    \cup {[url |-> "u1"]}

DefaultMaxResults == 10
MaxResultsArgs == (-1..MaxN) \cup {DefaultMaxResults}

(***************************************************************************)
(* DocumentIndexer                                                         *)
(***************************************************************************)
\* The methods class DocumentIndexer defines.
IndexerMethods ==
    {"__init__", "_ensure_index_file", "index_document", "search",
     "update_document", "delete_document", "get_document", "is_healthy"}

\* The outcomes of the file operations of one call.
IOOutcomes == {"ok", "read_error", "open_error", "dump_error"}

doc_entry(d) ==
    [url |-> Get(d, "url", ""),
     title |-> Get(d, "title", <<>>),
     content |-> Get(d, "content", <<>>),
     summary |-> Get(d, "summary", <<>>),
     indexed_at |-> Get(d, "indexed_at", "{}")]

\* [doc for doc in index if doc.get('url') != data.get('url')]
RemoveExisting(index, d) ==
    SelectSeq(index, LAMBDA doc : Get(doc, "url", None) # Get(d, "url", None))

\* An index_document that overwrites the entry of the same url where it
\* stands and appends only a new url.
NewIndexInPlace(index, d) ==
    IF \E i \in 1..Len(index) : Get(index[i], "url", None) = Get(d, "url", None)
    THEN [i \in 1..Len(index) |->
            IF Get(index[i], "url", None) = Get(d, "url", None)
            THEN doc_entry(d) ELSE index[i]]
    ELSE Append(index, doc_entry(d))

\* The list index_document writes back.
NewIndex(index, d) == Append(RemoveExisting(index, d), doc_entry(d))

\* index_document with `return True` moved out of the try block: True is
\* returned whatever happened to the file.
IndexWriteReturnsTrue(d, io) ==
    IF ~indexFileOk \/ io \in {"read_error", "open_error"}
    THEN [ret |-> TRUE, indexFile |-> indexFile, indexFileOk |-> indexFileOk]
    ELSE IF io = "dump_error"
    THEN [ret |-> TRUE, indexFile |-> <<>>, indexFileOk |-> FALSE]
    ELSE [ret |-> TRUE, indexFile |-> NewIndex(indexFile, d), indexFileOk |-> TRUE]

\* What index_document(d) returns and what it leaves in the file, the file
\* operations of the call having outcome io.
IndexWrite(d, io) ==
    IF ~indexFileOk \/ io \in {"read_error", "open_error"}
    THEN \* open/json.load or open(..., 'w') raised: caught, file untouched
         [ret |-> FALSE, indexFile |-> indexFile, indexFileOk |-> indexFileOk]
    ELSE IF io = "dump_error"
    THEN \* open(..., 'w') truncated the file and json.dump raised: caught
         [ret |-> FALSE, indexFile |-> <<>>, indexFileOk |-> FALSE]
    ELSE [ret |-> TRUE, indexFile |-> NewIndex(indexFile, d), indexFileOk |-> TRUE]

index_document(d, io) ==
    /\ op' = "index_document"
    /\ data' = d
    /\ exc' = ""
    /\ ret' = IndexWrite(d, io).ret
    /\ indexFile' = IndexWrite(d, io).indexFile
    /\ indexFileOk' = IndexWrite(d, io).indexFileOk
    /\ fileIO' = io
    /\ UNCHANGED indexFileExists
    /\ query' = <<>> /\ max_results' = 0 /\ results' = <<>> /\ retPos' = <<>>
    /\ UNCHANGED <<cacheVars, toolVars, serverVars, lookupVars, healthVars, procVars>>

TitleScore == 3
ContentScore == 1

\* The scoring with `elif` for the content test: a title match hides a content match.
scoreExclusive(doc, query_lower) ==
    LET title == Lower(Get(doc, "title", <<>>))
        content == Lower(Get(doc, "content", <<>>))
    IN  IF Contains(query_lower, title) THEN TitleScore
        ELSE IF Contains(query_lower, content) THEN ContentScore
        ELSE 0

\* The score the loop of search gives one entry.
score(doc, query_lower) ==
    LET title == Lower(Get(doc, "title", <<>>))
        content == Lower(Get(doc, "content", <<>>))
    IN  (IF Contains(query_lower, title) THEN TitleScore ELSE 0)
        + (IF Contains(query_lower, content) THEN ContentScore ELSE 0)

\* doc.copy() with doc_result['score'] = s
WithScore(doc, s) ==
    [k \in DOMAIN doc \cup {"score"} |-> IF k = "score" THEN s ELSE doc[k]]

\* The list `results` when the loop ends: the entries that scored, in index
\* order, each paired with its position in the index.
Scored(index, q) ==
    LET query_lower == Lower(q)
        hits == SelectSeq([i \in 1..Len(index) |-> i],
                          LAMBDA i : score(index[i], query_lower) > 0)
    IN  [k \in 1..Len(hits) |->
            [pos |-> hits[k],
             doc |-> WithScore(index[hits[k]], score(index[hits[k]], query_lower))]]

\* The sort step of an unstable sort: x goes before the elements of equal score.
InsertByScoreTiesFirst(sorted, x) ==
    LET notLarger == {i \in 1..Len(sorted) : sorted[i].doc.score <= x.doc.score}
        at == IF notLarger = {} THEN Len(sorted) + 1
              ELSE CHOOSE i \in notLarger : \A j \in notLarger : i <= j
    IN  SubSeq(sorted, 1, at - 1) \o <<x>> \o SubSeq(sorted, at, Len(sorted))

\* One step of the stable descending sort: x goes after every element whose
\* score is not smaller than its own.
InsertByScore(sorted, x) ==
    LET smaller == {i \in 1..Len(sorted) : sorted[i].doc.score < x.doc.score}
        at == IF smaller = {} THEN Len(sorted) + 1
              ELSE CHOOSE i \in smaller : \A j \in smaller : i <= j
    IN  SubSeq(sorted, 1, at - 1) \o <<x>> \o SubSeq(sorted, at, Len(sorted))

\* results.sort(key=lambda x: x['score'], reverse=True)
RECURSIVE SortByScore(_)
SortByScore(lst) ==
    IF lst = <<>> THEN <<>>
    ELSE InsertByScore(SortByScore(SubSeq(lst, 1, Len(lst) - 1)), lst[Len(lst)])

\* What search returns when the index loads.
SearchResults(index, q, n) == Slice(SortByScore(Scored(index, q)), n)

\* The entries search returns, each with its position in the index, the file
\* operations of the call having outcome io.
Found(q, n, io) ==
    IF ~indexFileOk \/ io = "read_error"
    THEN <<>>       \* open/json.load raised: caught, [] returned
    ELSE SearchResults(indexFile, q, n)

\* search with `doc['score'] = score` in place of the copy, the scored index
\* written back to the file.
searchWritesScore(q, n, io) ==
    /\ op' = "search"
    /\ query' = q
    /\ max_results' = n
    /\ exc' = ""
    /\ results' = [i \in 1..Len(Found(q, n, io)) |-> Found(q, n, io)[i].doc]
    /\ retPos' = [i \in 1..Len(Found(q, n, io)) |-> Found(q, n, io)[i].pos]
    /\ fileIO' = io
    /\ data' = NoneDict /\ ret' = FALSE
    /\ indexFile' = [i \in 1..Len(indexFile) |->
                        IF score(indexFile[i], Lower(q)) > 0
                        THEN WithScore(indexFile[i], score(indexFile[i], Lower(q)))
                        ELSE indexFile[i]]
    /\ UNCHANGED <<indexFileOk, indexFileExists, cacheVars, toolVars, serverVars,
                   lookupVars, healthVars, procVars>>

search(q, n, io) ==
    /\ op' = "search"
    /\ query' = q
    /\ max_results' = n
    /\ exc' = ""
    /\ results' = [i \in 1..Len(Found(q, n, io)) |-> Found(q, n, io)[i].doc]
    /\ retPos' = [i \in 1..Len(Found(q, n, io)) |-> Found(q, n, io)[i].pos]
    /\ fileIO' = io
    /\ data' = NoneDict /\ ret' = FALSE
    /\ UNCHANGED <<indexFile, indexFileOk, indexFileExists, cacheVars, toolVars, serverVars, lookupVars, healthVars, procVars>>

(***************************************************************************)
(* SearchEngine                                                            *)
(***************************************************************************)
_matches_query(document, q) ==
    \/ Contains(Lower(q), Lower(document.title))
    \/ Contains(Lower(q), Lower(document.content))

SearchEngine_search(q) ==
    /\ op' = "SearchEngine.search"
    /\ query' = q
    /\ max_results' = 0
    /\ retPos' = <<>>
    /\ IF "get_all_documents" \in IndexerMethods
       THEN /\ results' = SelectSeq(indexFile, LAMBDA document : _matches_query(document, q))
            /\ exc' = ""
       ELSE \* self.indexer.get_all_documents: no such attribute
            /\ results' = <<>>
            /\ exc' = "AttributeError"
    /\ fileIO' = "ok"
    /\ data' = NoneDict /\ ret' = FALSE
    /\ UNCHANGED <<indexFile, indexFileOk, indexFileExists, cacheVars, toolVars, serverVars, lookupVars, healthVars, procVars>>

(***************************************************************************)
(* The index specification: the indexer and the search engine over a       *)
(* storage that does not fail.                                             *)
(***************************************************************************)
EmptyDict == [k \in {} |-> NoneDict]

InitIndexVars ==
    /\ indexFile = <<>>
    /\ indexFileOk = TRUE
    /\ indexFileExists = TRUE
    /\ fileIO = "ok"
    /\ data = NoneDict
    /\ ret = FALSE
    /\ query = <<>>
    /\ max_results = 0
    /\ results = <<>>
    /\ retPos = <<>>

InitCacheVars ==
    /\ cache = EmptyDict
    /\ cacheFile = EmptyDict
    /\ cacheFileOk = FALSE
    /\ doc_id = ""
    /\ cached = NoneDict
    /\ putKeys = {}
    /\ prevCall = [op |-> "", doc_id |-> "", cached |-> NoneDict]

InitToolVars ==
    /\ tool = ""
    /\ capability_name = ""
    /\ parameters = EmptyDict
    /\ valid = FALSE
    /\ implementation = ""
    /\ calls = <<>>
    /\ raised = NoneDict
    /\ toolResult = NoneDict

InitServerVars ==
    /\ tool_call = [tool |-> "", arguments |-> EmptyDict]
    /\ handled = <<>>
    /\ steps = <<>>
    /\ fault = NoneDict
    /\ response = NoneDict

InitLookupVars ==
    /\ document_id = ""
    /\ lookup_result = NoneDict

InitHealthVars ==
    /\ cacheDirExists = TRUE
    /\ healthy = FALSE
    /\ healthFault = FALSE

\* The callers that issue an operation at the same time.
Callers == {"c1", "c2"}

InitProcVars ==
    /\ pc = [c \in Callers |-> "idle"]
    /\ frame = [c \in Callers |-> NoneDict]

Init ==
    /\ InitIndexVars
    /\ InitCacheVars
    /\ InitToolVars
    /\ InitServerVars
    /\ InitLookupVars
    /\ InitHealthVars
    /\ InitProcVars
    /\ op = "__init__"
    /\ exc = ""

IndexDocument ==
    \E d \in Docs :
        /\ Len(NewIndex(indexFile, d)) <= MaxIndex
        /\ index_document(d, "ok")

Search == \E q \in Queries, n \in MaxResultsArgs : search(q, n, "ok")

EngineSearch == \E q \in Queries : SearchEngine_search(q)

NextIndex == IndexDocument \/ Search \/ EngineSearch

SpecIndex == Init /\ [][NextIndex]_vars

(***************************************************************************)
(* The index over a storage that fails: a call's file operations can raise,*)
(* the file can be lost, and a new DocumentIndexer can be constructed.     *)
(***************************************************************************)
\* DocumentIndexer(): _ensure_index_file writes [] when there is no file and
\* leaves an existing file as it is.
DocumentIndexer_init ==
    /\ op' = "DocumentIndexer"
    /\ exc' = ""
    /\ indexFileExists' = TRUE
    /\ indexFileOk' = IF indexFileExists THEN indexFileOk ELSE TRUE
    /\ indexFile' = IF indexFileExists THEN indexFile ELSE <<>>
    /\ fileIO' = "ok"
    /\ data' = NoneDict /\ ret' = FALSE
    /\ query' = <<>> /\ max_results' = 0 /\ results' = <<>> /\ retPos' = <<>>
    /\ cacheDirExists' = TRUE      \* os.makedirs(..., exist_ok=True)
    /\ UNCHANGED <<cacheVars, toolVars, serverVars, lookupVars, healthy, healthFault, procVars>>

\* cache/document_index.json is removed from the disk.
RemoveIndexFile ==
    /\ indexFileExists
    /\ op' = "remove_index_file"
    /\ exc' = ""
    /\ indexFileExists' = FALSE
    /\ indexFileOk' = FALSE
    /\ indexFile' = <<>>
    /\ fileIO' = "ok"
    /\ data' = NoneDict /\ ret' = FALSE
    /\ query' = <<>> /\ max_results' = 0 /\ results' = <<>> /\ retPos' = <<>>
    /\ UNCHANGED <<cacheVars, toolVars, serverVars, lookupVars, healthVars, procVars>>

\* The documents and queries of the calls made over the failing storage.
IODocs ==
    [url : {"u1"}, title : {<<"A", "b">>}, content : Contents]
    \cup {[url |-> "u2", title |-> <<"b">>, content |-> <<"a">>]}
    \cup {[url |-> "u3", title |-> <<"b">>, content |-> <<"B">>]}

IndexDocumentIO ==
    \E d \in IODocs, io \in IOOutcomes :
        /\ Len(NewIndex(indexFile, d)) <= MaxIndex
        /\ index_document(d, io)

SearchIO ==
    \E q \in {<<"a">>, <<"b">>}, io \in {"ok", "read_error"} :
        search(q, DefaultMaxResults, io)

NextIndexIO == IndexDocumentIO \/ SearchIO \/ RemoveIndexFile \/ DocumentIndexer_init

SpecIndexIO == Init /\ [][NextIndexIO]_vars

(***************************************************************************)
(* The lookup and the removal of the indexer: get_document, delete_document*)
(* and update_document beside index_document.                              *)
(***************************************************************************)
\* def get_document(self, document_id): return None
DocumentIndexer_get_document(id) ==
    /\ op' = "DocumentIndexer.get_document"
    /\ exc' = ""
    /\ document_id' = id
    /\ lookup_result' = NoneDict
    /\ UNCHANGED <<indexVars, cacheVars, toolVars, serverVars, healthVars, procVars>>

\* def delete_document(self, document_id): pass
DocumentIndexer_delete_document(id) ==
    /\ op' = "DocumentIndexer.delete_document"
    /\ exc' = ""
    /\ document_id' = id
    /\ lookup_result' = NoneDict
    /\ UNCHANGED <<indexVars, cacheVars, toolVars, serverVars, healthVars, procVars>>

\* def update_document(self, document_id, data): pass
DocumentIndexer_update_document(id, d) ==
    /\ op' = "DocumentIndexer.update_document"
    /\ exc' = ""
    /\ document_id' = id
    /\ lookup_result' = NoneDict
    /\ UNCHANGED <<indexVars, cacheVars, toolVars, serverVars, healthVars, procVars>>

\* The ids looked up: the urls of IODocs and one that is never indexed.
DocumentIds == {"u1", "u2", "u3", "u4"}

IndexDocumentStored ==
    \E d \in IODocs :
        /\ Len(NewIndex(indexFile, d)) <= MaxIndex
        /\ index_document(d, "ok")

GetIndexedDocument == \E id \in DocumentIds : DocumentIndexer_get_document(id)

DeleteDocument == \E id \in DocumentIds : DocumentIndexer_delete_document(id)

UpdateDocument ==
    \E id \in DocumentIds : DocumentIndexer_update_document(id, [title |-> <<"b">>])

NextLookup == IndexDocumentStored \/ GetIndexedDocument \/ DeleteDocument \/ UpdateDocument

SpecLookup == Init /\ [][NextLookup]_vars

(***************************************************************************)
(* LocalCache                                                              *)
(***************************************************************************)
Keys == {"u1", "u2"}
CacheDocs == [url : {"u1"}, title : {<<"A", "b">>}, content : Contents]

\* The outcomes of save_cache's file operations.
SaveOutcomes == {"ok", "open_error", "dump_error"}

\* d[key] = value
DictSet(d, key, value) ==
    [k \in DOMAIN d \cup {key} |-> IF k = key THEN value ELSE d[k]]

load_cache ==
    IF cacheFileOk THEN cacheFile
    ELSE EmptyDict     \* FileNotFoundError or JSONDecodeError

\* save_cache with its body in `try: ... except OSError: pass`: a failed write
\* raises nothing.
SaveWriteSilent(c, io) ==
    CASE io = "ok" ->
            [cacheFile |-> c, cacheFileOk |-> TRUE, exc |-> ""]
      [] io = "open_error" ->
            [cacheFile |-> cacheFile, cacheFileOk |-> cacheFileOk, exc |-> ""]
      [] io = "dump_error" ->
            [cacheFile |-> EmptyDict, cacheFileOk |-> FALSE, exc |-> ""]

\* What save_cache leaves in the file when it writes the dict c, and the
\* exception it raises ("" when none).
SaveWrite(c, io) ==
    CASE io = "ok" ->
            [cacheFile |-> c, cacheFileOk |-> TRUE, exc |-> ""]
      [] io = "open_error" ->
            \* open(..., 'w') raised: the file is as it was
            [cacheFile |-> cacheFile, cacheFileOk |-> cacheFileOk, exc |-> "OSError"]
      [] io = "dump_error" ->
            \* open(..., 'w') truncated the file and json.dump raised
            [cacheFile |-> EmptyDict, cacheFileOk |-> FALSE, exc |-> "OSError"]

\* save_cache writing the dict c.
save_cache(c, io) ==
    /\ cacheFile' = SaveWrite(c, io).cacheFile
    /\ cacheFileOk' = SaveWrite(c, io).cacheFileOk
    /\ exc' = SaveWrite(c, io).exc

\* The call that ran last, as the next call remembers it.
LastCall == [op |-> op, doc_id |-> doc_id, cached |-> cached]

LocalCache_init ==
    /\ op' = "LocalCache"
    /\ prevCall' = LastCall
    /\ cache' = load_cache
    /\ exc' = ""
    /\ doc_id' = ""
    /\ cached' = NoneDict
    /\ cacheDirExists' = TRUE      \* os.makedirs(..., exist_ok=True)
    /\ UNCHANGED <<cacheFile, cacheFileOk, putKeys, indexVars, toolVars, serverVars,
                   lookupVars, healthy, healthFault, procVars>>

\* self.cache.setdefault(doc_id, data): a key already cached keeps its value
CacheWithoutOverwrite(c, key, value) ==
    IF key \in DOMAIN c THEN c ELSE DictSet(c, key, value)

\* self.cache after self.cache[doc_id] = data
CacheWith(c, key, value) == DictSet(c, key, value)

cache_document(key, value, io) ==
    /\ op' = "cache_document"
    /\ prevCall' = LastCall
    /\ doc_id' = key
    /\ cached' = value
    /\ cache' = CacheWith(cache, key, value)
    /\ save_cache(cache', io)
    /\ putKeys' = putKeys \cup {key}
    /\ UNCHANGED <<indexVars, toolVars, serverVars, lookupVars, healthVars, procVars>>

\* self.cache.pop(doc_id, None): the entry is handed out once
get_document_pop(key) ==
    /\ op' = "get_document"
    /\ prevCall' = LastCall
    /\ doc_id' = key
    /\ cached' = Get(cache, key, NoneDict)
    /\ cache' = [k \in DOMAIN cache \ {key} |-> cache[k]]
    /\ exc' = ""
    /\ UNCHANGED <<cacheFile, cacheFileOk, putKeys, indexVars, toolVars, serverVars, lookupVars, healthVars, procVars>>

get_document(key) ==
    /\ op' = "get_document"
    /\ prevCall' = LastCall
    /\ doc_id' = key
    /\ cached' = Get(cache, key, NoneDict)
    /\ exc' = ""
    /\ UNCHANGED <<cache, cacheFile, cacheFileOk, putKeys, indexVars, toolVars, serverVars, lookupVars, healthVars, procVars>>

clear_cache(io) ==
    /\ op' = "clear_cache"
    /\ prevCall' = LastCall
    /\ doc_id' = ""
    /\ cached' = NoneDict
    /\ cache' = EmptyDict
    /\ save_cache(cache', io)
    /\ putKeys' = IF io = "ok" THEN {} ELSE putKeys
    /\ UNCHANGED <<indexVars, toolVars, serverVars, lookupVars, healthVars, procVars>>

CacheDocument ==
    \E key \in Keys, value \in CacheDocs, io \in SaveOutcomes :
        cache_document(key, value, io)

GetDocument == \E key \in Keys : get_document(key)

ClearCache == \E io \in SaveOutcomes : clear_cache(io)

NextCache == CacheDocument \/ GetDocument \/ ClearCache \/ LocalCache_init

SpecCache == Init /\ [][NextCache]_vars

(***************************************************************************)
(* is_healthy of the cache and of the indexer, over a disk whose cache/    *)
(* directory and index file can be lost.                                   *)
(***************************************************************************)
\* try: return os.path.exists(...) with the except clause left out: the
\* answer is given whether or not the test went wrong.
is_healthyUnguarded(exists, raises) == exists

\* try: return os.path.exists(...) / except: return False
is_healthy(exists, raises) == IF raises THEN FALSE ELSE exists

LocalCache_is_healthy_call(raises) ==
    /\ op' = "LocalCache.is_healthy"
    /\ exc' = ""
    /\ healthy' = is_healthy(cacheDirExists, raises)
    /\ healthFault' = raises
    /\ UNCHANGED <<cacheDirExists, indexVars, cacheVars, toolVars, serverVars,
                   lookupVars, procVars>>

DocumentIndexer_is_healthy_call(raises) ==
    /\ op' = "DocumentIndexer.is_healthy"
    /\ exc' = ""
    /\ healthy' = is_healthy(indexFileExists, raises)
    /\ healthFault' = raises
    /\ UNCHANGED <<cacheDirExists, indexVars, cacheVars, toolVars, serverVars,
                   lookupVars, procVars>>

\* The directory cache/ is removed from the disk, with the two files in it.
RemoveCacheDirectory ==
    /\ cacheDirExists
    /\ op' = "remove_cache_directory"
    /\ exc' = ""
    /\ cacheDirExists' = FALSE
    /\ indexFileExists' = FALSE
    /\ indexFileOk' = FALSE
    /\ indexFile' = <<>>
    /\ cacheFileOk' = FALSE
    /\ cacheFile' = EmptyDict
    /\ UNCHANGED <<fileIO, data, ret, query, max_results, results, retPos,
                   cache, doc_id, cached, putKeys, prevCall,
                   healthy, healthFault, toolVars, serverVars, lookupVars, procVars>>

\* The outcomes save_cache can have: without the directory open(..., 'w')
\* raises FileNotFoundError.
SaveOutcomesOnDisk == IF cacheDirExists THEN SaveOutcomes ELSE {"open_error"}

HealthIndexDocument ==
    \E d \in {e \in IODocs : e.url = "u2"} : index_document(d, "ok")

HealthCacheDocument ==
    \E value \in {v \in CacheDocs : v.content = <<"a">>}, io \in SaveOutcomesOnDisk :
        cache_document("u1", value, io)

CacheIsHealthy == \E raises \in BOOLEAN : LocalCache_is_healthy_call(raises)

IndexerIsHealthy == \E raises \in BOOLEAN : DocumentIndexer_is_healthy_call(raises)

NextHealth ==
    \/ CacheIsHealthy \/ IndexerIsHealthy
    \/ RemoveCacheDirectory \/ RemoveIndexFile
    \/ DocumentIndexer_init \/ LocalCache_init
    \/ HealthIndexDocument \/ HealthCacheDocument

SpecHealth == Init /\ [][NextHealth]_vars

(***************************************************************************)
(* Concurrent callers of one store.  Neither class takes a lock, so the    *)
(* statements of two calls running at the same time (two threads, or for   *)
(* the index file two processes) interleave freely: each step below is one *)
(* statement of index_document or of cache_document / save_cache.          *)
(***************************************************************************)
\* pc and frame after caller c moved to position at with locals f.
Moved(c, at, f) ==
    /\ pc' = [pc EXCEPT ![c] = at]
    /\ frame' = [frame EXCEPT ![c] = f]

\* What two writers that had the file open at the same time leave in it:
\* the text written last, laid over the text written before it, is the
\* text written last or, the two differing in length, no JSON text at all.
Overlaid(wasWritten, before, written) ==
    IF wasWritten /\ before # written THEN BOOLEAN ELSE {FALSE}

\* index_document, lines 21-22: open(self.index_file, 'r') and json.load
IndexLoad(c, d) ==
    /\ pc[c] = "idle"
    /\ op' = "index_document:load"
    /\ exc' = ""
    /\ IF indexFileOk
       THEN Moved(c, "loaded", [call |-> "index_document", data |-> d, index |-> indexFile])
       ELSE \* the load raised: caught, False returned
            Moved(c, "returned", [call |-> "index_document", data |-> d, ret |-> FALSE])
    /\ UNCHANGED <<indexVars, cacheVars, toolVars, serverVars, lookupVars, healthVars>>

\* index_document, line 40: open(self.index_file, 'w') truncates the file
IndexOpen(c) ==
    /\ pc[c] = "loaded"
    /\ op' = "index_document:open"
    /\ exc' = ""
    /\ indexFile' = <<>>
    /\ indexFileOk' = FALSE
    /\ Moved(c, "opened", frame[c])
    /\ UNCHANGED <<indexFileExists, fileIO, data, ret, query, max_results, results, retPos,
                   cacheVars, toolVars, serverVars, lookupVars, healthVars>>

\* index_document, lines 34-43: the list built from the loaded one is dumped
IndexDump(c) ==
    /\ pc[c] = "opened"
    /\ op' = "index_document:dump"
    /\ exc' = ""
    /\ LET index == NewIndex(frame[c].index, frame[c].data)
       IN  \E torn \in Overlaid(indexFileOk, indexFile, index) :
               /\ indexFile' = IF torn THEN <<>> ELSE index
               /\ indexFileOk' = ~torn
    /\ Moved(c, "returned", [call |-> "index_document", data |-> frame[c].data, ret |-> TRUE])
    /\ UNCHANGED <<indexFileExists, fileIO, data, ret, query, max_results, results, retPos,
                   cacheVars, toolVars, serverVars, lookupVars, healthVars>>

\* cache_document, line 21: self.cache[doc_id] = data
CacheSet(c, key, value) ==
    /\ pc[c] = "idle"
    /\ op' = "cache_document:set"
    /\ exc' = ""
    /\ cache' = CacheWith(cache, key, value)
    /\ Moved(c, "set", [call |-> "cache_document", doc_id |-> key, data |-> value])
    /\ UNCHANGED <<cacheFile, cacheFileOk, doc_id, cached, putKeys, prevCall,
                   indexVars, toolVars, serverVars, lookupVars, healthVars>>

\* save_cache, line 34: open(self.cache_file, 'w') truncates the file
CacheOpen(c) ==
    /\ pc[c] = "set"
    /\ op' = "cache_document:open"
    /\ exc' = ""
    /\ cacheFile' = EmptyDict
    /\ cacheFileOk' = FALSE
    /\ Moved(c, "opened_cache", frame[c])
    /\ UNCHANGED <<cache, doc_id, cached, putKeys, prevCall,
                   indexVars, toolVars, serverVars, lookupVars, healthVars>>

\* save_cache, line 35: json.dump(self.cache, f) writes the dict as it is now
CacheDump(c) ==
    /\ pc[c] = "opened_cache"
    /\ op' = "cache_document:dump"
    /\ exc' = ""
    /\ \E torn \in Overlaid(cacheFileOk, cacheFile, cache) :
           /\ cacheFile' = IF torn THEN EmptyDict ELSE cache
           /\ cacheFileOk' = ~torn
    /\ Moved(c, "returned", frame[c])
    /\ UNCHANGED <<cache, doc_id, cached, putKeys, prevCall,
                   indexVars, toolVars, serverVars, lookupVars, healthVars>>

IssueIndexDocument == \E c \in Callers, d \in IODocs : IndexLoad(c, d)

IssueCacheDocument ==
    \E c \in Callers, key \in Keys, value \in CacheDocs : CacheSet(c, key, value)

NextConcurrent ==
    \/ IssueIndexDocument
    \/ \E c \in Callers : IndexOpen(c)
    \/ \E c \in Callers : IndexDump(c)
    \/ IssueCacheDocument
    \/ \E c \in Callers : CacheOpen(c)
    \/ \E c \in Callers : CacheDump(c)

SpecConcurrent == Init /\ [][NextConcurrent]_vars

(***************************************************************************)
(* BaseTool.validate_parameters and the capabilities the tools declare.    *)
(***************************************************************************)
Capability(n, schema) == [name |-> n, input_schema |-> schema]

ScrapingToolCapabilities ==
    << Capability("scrape_url", [type |-> "object", required |-> <<"url">>]),
       Capability("scrape_multiple_urls", [type |-> "object", required |-> <<"urls">>]),
       Capability("parse_content", [type |-> "object", required |-> <<"html">>]) >>

SearchToolCapabilities ==
    << Capability("search", [type |-> "object", required |-> <<"query">>]),
       Capability("suggest", [type |-> "object", required |-> <<"partial_query">>]),
       Capability("similar", [type |-> "object", required |-> <<"document_id">>]) >>

IndexingToolCapabilities ==
    << Capability("add_document",
                  [type |-> "object",
                   properties |->
                       [document |-> [type |-> "object",
                                      required |-> <<"id", "title", "content">>]],
                   required |-> <<"document">>]),
       Capability("update_document",
                  [type |-> "object", required |-> <<"document_id", "updates">>]),
       Capability("remove_document", [type |-> "object", required |-> <<"document_id">>]),
       Capability("get_document", [type |-> "object", required |-> <<"document_id">>]),
       Capability("list_documents", [type |-> "object"]),
       Capability("get_index_stats", [type |-> "object"]),
       Capability("rebuild_index", [type |-> "object"]) >>

TestToolCapabilities ==
    << Capability("test_cap", [type |-> "object", required |-> <<"required_param">>]) >>

ToolNames == {"scraping_tool", "search_tool", "indexing_tool", "test_tool"}

capabilities(t) ==
    CASE t = "scraping_tool" -> ScrapingToolCapabilities
      [] t = "search_tool" -> SearchToolCapabilities
      [] t = "indexing_tool" -> IndexingToolCapabilities
      [] t = "test_tool" -> TestToolCapabilities

\* next((cap for cap in caps if cap.name == name), None)
FirstNamed(caps, name) ==
    LET at == {i \in 1..Len(caps) : caps[i].name = name}
    IN  IF at = {} THEN NoneDict
        ELSE caps[CHOOSE i \in at : \A j \in at : i <= j]

\* any(param in parameters for param in required_params)
AnyPresent(required_params, params) ==
    \/ required_params = <<>>
    \/ \E i \in 1..Len(required_params) : required_params[i] \in DOMAIN params

\* all(param in parameters for param in required_params)
AllPresent(required_params, params) ==
    \A i \in 1..Len(required_params) : required_params[i] \in DOMAIN params

validate_parameters(t, name, params) ==
    LET capability == FirstNamed(capabilities(t), name)
    IN  IF capability = NoneDict THEN FALSE
        ELSE AllPresent(Get(capability.input_schema, "required", <<>>), params)

\* The names a caller passes to a tool: the ones it declares, one that no tool
\* declares and one that another tool declares.
DeclaredNames(t) == {capabilities(t)[i].name : i \in 1..Len(capabilities(t))}

CapabilityNameArgs(t) ==
    DeclaredNames(t) \cup {"unknown"}
    \cup {IF t = "search_tool" THEN "scrape_url" ELSE "search"}

ParamKeys ==
    {"url", "urls", "html", "query", "partial_query", "document_id", "document",
     "updates", "required_param", "param", "force"}

\* The values of a parameter: some value, and null.
ParamValues == {"value", None}

\* The caller adds an entry to the parameters it is going to pass.
SetParameter ==
    \E key \in ParamKeys, value \in ParamValues :
        /\ Cardinality(DOMAIN parameters \cup {key}) <= MaxParams
        /\ parameters' = DictSet(parameters, key, value)
        /\ op' = "set_parameter"
        /\ exc' = ""
        /\ UNCHANGED <<tool, capability_name, valid, execVars, indexVars, cacheVars, serverVars, lookupVars, healthVars, procVars>>

ValidateParameters ==
    \E t \in ToolNames :
        \E name \in CapabilityNameArgs(t) :
            /\ tool' = t
            /\ capability_name' = name
            /\ valid' = validate_parameters(t, name, parameters)
            /\ op' = "validate_parameters"
            /\ exc' = ""
            /\ UNCHANGED <<parameters, execVars, indexVars, cacheVars, serverVars, lookupVars, healthVars, procVars>>

NextTools == SetParameter \/ ValidateParameters

SpecTools == Init /\ [][NextTools]_vars

(***************************************************************************)
(* execute of ScrapingTool, SearchTool and IndexingTool.                   *)
(*                                                                         *)
(* A str built from pieces (an f-string, an exception's message) is the    *)
(* record FString(pieces); a parameter value is a record that carries its  *)
(* JSON type, and for an object its keys.                                  *)
(***************************************************************************)
FString(parts) == [str |-> parts]

\* @dataclass ToolResult
ToolResult(success, result, error) ==
    [success |-> success, data |-> result, error |-> error, metadata |-> NoneDict]

\* An exception object: its class and the pieces of its message.
Exception(type, args) == [type |-> type, args |-> args]

\* str(e): the message, and for a KeyError the repr of the missing key
str(e) ==
    IF e.type = "KeyError" THEN <<"'">> \o e.args \o <<"'">>
    ELSE e.args

\* The classes `except Exception` catches among the ones raised.
ExceptionSubclasses ==
    {"TypeError", "KeyError", "NotImplementedError", "RuntimeError",
     "ValidationError", "OSError", "ImportError", "Exception"}

\* `except KeyError`: a handler that lets every other fault through
exceptKeyError(e) == e.type = "KeyError"

\* `except Exception as e`
exceptException(e) == e.type \in ExceptionSubclasses

JsonString == [type |-> "string"]
JsonBoolean == [type |-> "boolean"]
JsonObject(keys) == [type |-> "object", keys |-> keys]

\* The parameters a def declares: without default, with default, and **kwargs.
Signature(required, optional, var_keyword) ==
    [required |-> required, optional |-> optional, var_keyword |-> var_keyword]

\* A signature whose every parameter has a default.
signatureAllOptional(t, name) == Signature({}, {}, TRUE)

\* The signatures of the operations that execute calls with **parameters, and
\* of the Document dataclass.
signature(t, name) ==
    CASE name = "scrape_url" -> Signature({"url"}, {}, TRUE)
      [] name = "scrape_multiple_urls" -> Signature({"urls"}, {}, TRUE)
      [] name = "parse_content" -> Signature({"html"}, {"url"}, TRUE)
      [] name = "search" ->
            Signature({"query"}, {"search_type", "limit", "filters", "include_snippets"}, FALSE)
      [] name = "suggest" -> Signature({"partial_query"}, {"limit"}, FALSE)
      [] name = "similar" -> Signature({"document_id"}, {"limit", "threshold"}, FALSE)
      [] name = "get_document" -> Signature({"document_id"}, {"include_content"}, FALSE)
      [] name = "list_documents" ->
            Signature({}, {"source", "tags", "limit", "offset", "include_content"}, FALSE)
      [] name = "Document" ->
            Signature({"id", "title", "content"},
                      {"url", "source", "tags", "metadata", "created_at", "updated_at"}, FALSE)

\* f(**keys) binds: every parameter without default is given, and a key that
\* names no parameter needs **kwargs.
Binds(sig, keys) ==
    /\ sig.required \subseteq keys
    /\ sig.var_keyword \/ keys \subseteq (sig.required \cup sig.optional)

\* How the operation a call reaches is implemented: the body of the interface
\* class, or an override that returns or that raises.
Implementations == {"interface", "returns", "raises"}

\* The result of one step of execute's try block: the exception it raised (or
\* NoneDict), the value it produced and the operations it invoked.
Raises(e) == [raised |-> e, value |-> NoneDict, invoked |-> <<>>]

\* await self.<name>(...), once the arguments are bound
Invoke(name, impl, r) ==
    CASE impl = "interface" ->
            [raised |-> Exception("NotImplementedError", <<"Subclasses must implement ", name>>),
             value |-> NoneDict, invoked |-> <<name>>]
      [] impl = "raises" ->
            [raised |-> Exception("RuntimeError", <<"fault in ", name>>),
             value |-> NoneDict, invoked |-> <<name>>]
      [] impl = "returns" ->
            [raised |-> NoneDict, value |-> r, invoked |-> <<name>>]

\* await self.<name>(**parameters)
InvokeWithParameters(t, name, params, impl, r) ==
    IF Binds(signature(t, name), DOMAIN params) THEN Invoke(name, impl, r)
    ELSE Raises(Exception("TypeError", <<name, "() got wrong arguments">>))

\* parameters[key], then what follows it
Subscript(params, key, then) ==
    IF key \in DOMAIN params THEN then
    ELSE Raises(Exception("KeyError", <<key>>))

\* Document(**doc_data)
NewDocument(doc_data, then) ==
    IF doc_data.type # "object"
    THEN Raises(Exception("TypeError", <<"argument after ** must be a mapping">>))
    ELSE IF ~Binds(signature("indexing_tool", "Document"), doc_data.keys)
    THEN Raises(Exception("TypeError", <<"__init__", "() got wrong arguments">>))
    ELSE then

\* The branch of the if/elif chain every name falls into when the chain has no
\* final else: the first one.
BranchFirst(t, name) == capabilities(t)[1].name

\* The branch of execute's if/elif chain that a capability name takes.
Branch(t, name) ==
    LET chain ==
            CASE t = "scraping_tool" -> {"scrape_url", "scrape_multiple_urls", "parse_content"}
              [] t = "search_tool" -> {"search", "suggest", "similar"}
              [] t = "indexing_tool" ->
                    {"add_document", "update_document", "remove_document", "get_document",
                     "list_documents", "get_index_stats", "rebuild_index"}
    IN  IF name \in chain THEN name ELSE "else"

\* The branches that wrap the operation's result, with the key they use.
Wrappers ==
    [add_document |-> "added", update_document |-> "updated",
     remove_document |-> "removed", rebuild_index |-> "rebuilt"]

\* data={"added": result} and the like; data=result elsewhere
Wrap(branch, result) ==
    IF branch \in DOMAIN Wrappers THEN [k \in {Wrappers[branch]} |-> result]
    ELSE result

\* The try block of execute for a name its chain holds.
TryBlock(t, branch, params, impl, r) ==
    CASE branch = "add_document" ->
            Subscript(params, "document",
                      NewDocument(Get(params, "document", JsonString),
                                  Invoke(branch, impl, r)))
      [] branch = "update_document" ->
            Subscript(params, "document_id",
                      Subscript(params, "updates", Invoke(branch, impl, r)))
      [] branch = "remove_document" ->
            Subscript(params, "document_id", Invoke(branch, impl, r))
      [] branch \in {"get_index_stats", "rebuild_index"} -> Invoke(branch, impl, r)
      [] OTHER -> InvokeWithParameters(t, branch, params, impl, r)

\* The values an operation returns: a bool from the operations whose result is
\* wrapped, an object or None from the others.
ReturnValues(name) ==
    IF name \in DOMAIN Wrappers THEN {TRUE, FALSE}
    ELSE IF name = "get_document" THEN {[id |-> "d1"], NoneDict}
    ELSE {[returned_by |-> name]}

execute(t, name, impl, r) ==
    LET branch == Branch(t, name)
        done == TryBlock(t, branch, parameters, impl, r)
    IN  /\ op' = "execute"
        /\ tool' = t
        /\ capability_name' = name
        /\ implementation' = impl
        /\ IF branch = "else"
           THEN /\ calls' = <<>>
                /\ raised' = NoneDict
                /\ exc' = ""
                /\ toolResult' =
                       ToolResult(FALSE, NoneDict, FString(<<"Unknown capability: ", name>>))
           ELSE /\ calls' = [i \in 1..Len(done.invoked) |->
                                [name |-> done.invoked[i], returned |-> done.value]]
                /\ raised' = done.raised
                /\ IF done.raised = NoneDict
                   THEN /\ exc' = ""
                        /\ toolResult' = ToolResult(TRUE, Wrap(branch, done.value), NoneDict)
                   ELSE IF exceptException(done.raised)
                   THEN /\ exc' = ""
                        /\ toolResult' =
                               ToolResult(FALSE, NoneDict,
                                          FString(<<"Error executing ", name, ": ">>
                                                  \o str(done.raised)))
                   ELSE /\ exc' = done.raised.type
                        /\ toolResult' = NoneDict
        /\ UNCHANGED <<parameters, valid, indexVars, cacheVars, serverVars, lookupVars, healthVars, procVars>>

ExecutingTools == {"scraping_tool", "search_tool", "indexing_tool"}

\* The keys of the document given to add_document: none, the required ones,
\* one missing, an optional one added, one the dataclass does not have.
DocumentKeys ==
    {{}, {"id", "title", "content"}, {"id", "title"},
     {"id", "title", "content", "url"}, {"id", "title", "content", "author"}}

\* The values a caller gives a parameter. execute looks into the document
\* only; every other value goes to the operation as it is.
ArgumentValues(key) ==
    IF key = "document" THEN {JsonString} \cup {JsonObject(keys) : keys \in DocumentKeys}
    ELSE IF key = "updates" THEN {JsonObject({})}
    ELSE IF key = "force" THEN {JsonBoolean}
    ELSE {JsonString}

\* The caller adds an entry to the parameters it is going to pass to execute.
SetArgument ==
    \E key \in ParamKeys :
        \E value \in ArgumentValues(key) :
            /\ Cardinality(DOMAIN parameters \cup {key}) <= MaxParams
            /\ parameters' = DictSet(parameters, key, value)
            /\ op' = "set_argument"
            /\ exc' = ""
            /\ UNCHANGED <<tool, capability_name, valid, execVars, indexVars, cacheVars, serverVars, lookupVars, healthVars, procVars>>

Execute ==
    \E t \in ExecutingTools :
        \E name \in CapabilityNameArgs(t), impl \in Implementations :
            \E r \in ReturnValues(name) :
                execute(t, name, impl, r)

NextExecute == SetArgument \/ Execute

SpecExecute == Init /\ [][NextExecute]_vars

(***************************************************************************)
(* The server: call_tool and the handlers it dispatches to.                *)
(***************************************************************************)
\* A ToolResponse whose error field defaults to '' in place of None.
ToolResponseErrorDefaultsEmpty(success, result, error) ==
    [success |-> success, data |-> result,
     error |-> IF error = NoneDict THEN FString(<<>>) ELSE error]

\* class ToolResponse(BaseModel)
ToolResponse(success, result, error) ==
    [success |-> success, data |-> result, error |-> error]

\* An argument of a tool call: its JSON type and its value.
Json(type, value) == [type |-> type, value |-> value]

\* ScrapeUrlRequest(**arguments) validates: url is a str, force_refresh, when
\* given, a bool; other keys are ignored.
ScrapeUrlRequestValid(arguments) ==
    /\ "url" \in DOMAIN arguments
    /\ arguments["url"].type = "string"
    /\ "force_refresh" \in DOMAIN arguments => arguments["force_refresh"].type = "boolean"

ScrapeUrlRequest(arguments) ==
    [url |-> arguments["url"].value,
     force_refresh |-> IF "force_refresh" \in DOMAIN arguments
                       THEN arguments["force_refresh"].value ELSE FALSE]

\* SearchRequest(**arguments) validates: query is a str, max_results, when
\* given, an int.
SearchRequestValid(arguments) ==
    /\ "query" \in DOMAIN arguments
    /\ arguments["query"].type = "string"
    /\ "max_results" \in DOMAIN arguments => arguments["max_results"].type = "integer"

SearchRequest(arguments) ==
    [query |-> arguments["query"].value,
     max_results |-> IF "max_results" \in DOMAIN arguments
                     THEN arguments["max_results"].value ELSE DefaultMaxResults]

ValidationError(model) == Exception("ValidationError", <<"1 validation error for ", model>>)

\* The page the web serves at each url: one with a title, one without.
WebPage(url) ==
    IF url = "u1" THEN [title |-> <<"A", "b">>, p |-> << <<"a">> >>]
    ELSE [p |-> << <<"B">>, <<"a">> >>]

\* What session.get gives for a url: the page, another status, an exception.
Responses(url) ==
    {[status_code |-> 200, text |-> WebPage(url)],
     [status_code |-> 404],
     [raised |-> "ConnectionError"]}

\* WebScraper.scrape_article: the exception it raises for a response that is
\* not a page (NoneDict when it returns response.text).
scrape_article(url, resp) ==
    IF "raised" \in DOMAIN resp
    THEN Exception("Exception", <<"Error scraping ", url, ": ", resp.raised>>)
    ELSE IF resp.status_code = 200 THEN NoneDict
    ELSE Exception("Exception",
                   <<"Error scraping ", url, ": ", "Failed to retrieve article from ", url,
                     ", status code: ", resp.status_code>>)

\* sep.join(texts)
RECURSIVE Join(_, _)
Join(texts, sep) ==
    IF texts = <<>> THEN <<>>
    ELSE IF Len(texts) = 1 THEN texts[1]
    ELSE texts[1] \o <<sep>> \o Join(Tail(texts), sep)

SummaryLimit == 500

\* 'No Title'
NoTitle == <<"N", "o", " ", "T", "i", "t", "l", "e">>

\* ContentParser.parse_content
parse_content(html, url) ==
    LET content == Join(html.p, " ")
    IN  [title |-> IF "title" \in DOMAIN html THEN html.title ELSE NoTitle,
         content |-> content,
         url |-> url,
         summary |-> IF Len(content) > SummaryLimit
                     THEN SubSeq(content, 1, SummaryLimit) \o <<".", ".", ".">>
                     ELSE content]

\* The outcomes of the import and the parse inside parse_content.
ParseOutcomes == {"ok", "error"}

\* The files and the dict the handlers work on.
Stores ==
    [indexFile |-> indexFile, indexFileOk |-> indexFileOk,
     cache |-> cache, cacheFile |-> cacheFile, cacheFileOk |-> cacheFileOk]

\* A handler ends by raising e, or by returning value.
HandlerRaises(e, done, stores) ==
    [raised |-> e, value |-> NoneDict, steps |-> done, stores |-> stores]

HandlerReturns(value, done, stores) ==
    [raised |-> NoneDict, value |-> value, steps |-> done, stores |-> stores]

\* `if cached_doc:`
Truthy(d) == d # NoneDict /\ DOMAIN d # {}

\* LocalCache.is_healthy when os.path.exists does not raise
LocalCache_is_healthy == cacheDirExists

\* DocumentIndexer.is_healthy
DocumentIndexer_is_healthy == indexFileExists

\* The part of _handle_scrape_documentation after the cache was consulted.
ScrapeAndStore(request, before, resp, parse_io, index_io, cache_io) ==
    LET parsed_data == parse_content(resp.text, request.url)
        written == IndexWrite(parsed_data, index_io)
        newCache == CacheWith(cache, request.url, parsed_data)
        saved == SaveWrite(newCache, cache_io)
        after == [indexFile |-> written.indexFile, indexFileOk |-> written.indexFileOk,
                  cache |-> newCache,
                  cacheFile |-> saved.cacheFile, cacheFileOk |-> saved.cacheFileOk]
    IN  IF scrape_article(request.url, resp) # NoneDict
        THEN HandlerRaises(scrape_article(request.url, resp),
                           before \o <<"scrape_article">>, Stores)
        ELSE IF parse_io # "ok"
        THEN HandlerRaises(Exception("ImportError", <<"No module named ", "bs4">>),
                           before \o <<"scrape_article", "parse_content">>, Stores)
        ELSE IF saved.exc # ""
        THEN HandlerRaises(Exception(saved.exc, <<"cannot write ", "cache/local_cache.json">>),
                           before \o <<"scrape_article", "parse_content",
                                       "index_document", "cache_document">>, after)
        ELSE HandlerReturns(
                 [message |-> FString(<<"Successfully scraped and cached: ">>
                                      \o parsed_data.title),
                  url |-> request.url, source |-> "scraped", document |-> parsed_data],
                 before \o <<"scrape_article", "parse_content",
                             "index_document", "cache_document">>, after)

_handle_scrape_documentation(arguments, resp, parse_io, index_io, cache_io) ==
    IF ~ScrapeUrlRequestValid(arguments)
    THEN HandlerRaises(ValidationError("ScrapeUrlRequest"), <<>>, Stores)
    ELSE LET request == ScrapeUrlRequest(arguments)
             cached_doc == Get(cache, request.url, NoneDict)
         IN  IF request.force_refresh
             THEN ScrapeAndStore(request, <<>>, resp, parse_io, index_io, cache_io)
             ELSE IF Truthy(cached_doc)
             THEN HandlerReturns(
                      [message |-> FString(<<"Retrieved from cache: ">>
                                           \o Get(cached_doc, "title", <<"Untitled">>)),
                       url |-> request.url, source |-> "cache", document |-> cached_doc],
                      <<"get_cached_document">>, Stores)
             ELSE ScrapeAndStore(request, <<"get_cached_document">>,
                                 resp, parse_io, index_io, cache_io)

_handle_search_documentation(arguments, index_io) ==
    IF ~SearchRequestValid(arguments)
    THEN HandlerRaises(ValidationError("SearchRequest"), <<>>, Stores)
    ELSE LET request == SearchRequest(arguments)
             found == Found(request.query, request.max_results, index_io)
             res == [i \in 1..Len(found) |-> found[i].doc]
         IN  HandlerReturns(
                 [query |-> request.query, total_results |-> Len(res),
                  max_results |-> request.max_results, results |-> res],
                 <<"search">>, Stores)

_handle_health_check(arguments) ==
    HandlerReturns(
        [server |-> "OK",
         cache |-> IF LocalCache_is_healthy THEN "OK" ELSE "ERROR",
         indexer |-> IF DocumentIndexer_is_healthy THEN "OK" ELSE "ERROR",
         configuration |-> "OK",
         cache_directory |-> "cache"],
        <<"LocalCache.is_healthy", "DocumentIndexer.is_healthy">>, Stores)

\* A dispatch whose chain ends with the health check in place of the else.
HandlerOrHealthCheck(t) ==
    CASE t = "scrape_documentation" -> "_handle_scrape_documentation"
      [] t = "search_documentation" -> "_handle_search_documentation"
      [] OTHER -> "_handle_health_check"

\* The handler call_tool's if/elif chain picks for a tool name.
Handler(t) ==
    CASE t = "scrape_documentation" -> "_handle_scrape_documentation"
      [] t = "search_documentation" -> "_handle_search_documentation"
      [] t = "health_check" -> "_handle_health_check"
      [] OTHER -> "else"

\* What the except clause would return if it reported the fault as data.
ErrorAsData(e) == ToolResponse(TRUE, [error |-> FString(str(e))], NoneDict)

\* ToolResponse(success=False, error=str(e))
ErrorResponse(e) == ToolResponse(FALSE, NoneDict, FString(str(e)))

call_tool(t, arguments, resp, parse_io, index_io, cache_io) ==
    LET h == Handler(t)
        out == CASE h = "_handle_scrape_documentation" ->
                      _handle_scrape_documentation(arguments, resp, parse_io, index_io, cache_io)
                 [] h = "_handle_search_documentation" ->
                      _handle_search_documentation(arguments, index_io)
                 [] h = "_handle_health_check" -> _handle_health_check(arguments)
                 [] OTHER -> HandlerReturns(NoneDict, <<>>, Stores)
    IN  /\ op' = "call_tool"
        /\ tool_call' = [tool |-> t, arguments |-> arguments]
        /\ handled' = IF h = "else" THEN <<>> ELSE <<h>>
        /\ steps' = out.steps
        /\ fault' = out.raised
        /\ indexFile' = out.stores.indexFile
        /\ indexFileOk' = out.stores.indexFileOk
        /\ cache' = out.stores.cache
        /\ cacheFile' = out.stores.cacheFile
        /\ cacheFileOk' = out.stores.cacheFileOk
        /\ putKeys' = IF "cache_document" \in {out.steps[i] : i \in 1..Len(out.steps)}
                      THEN putKeys \cup {arguments["url"].value}
                      ELSE putKeys
        /\ IF h = "else"
           THEN /\ response' = ToolResponse(FALSE, NoneDict, FString(<<"Unknown tool: ", t>>))
                /\ exc' = ""
           ELSE IF out.raised = NoneDict
           THEN /\ response' = ToolResponse(TRUE, out.value, NoneDict)
                /\ exc' = ""
           ELSE IF exceptException(out.raised)
           THEN /\ response' = ErrorResponse(out.raised)
                /\ exc' = ""
           ELSE /\ response' = NoneDict
                /\ exc' = out.raised.type
        /\ UNCHANGED <<indexFileExists, fileIO, data, ret, query, max_results, results,
                       retPos, doc_id, cached, prevCall, toolVars,
                       lookupVars, healthVars, procVars>>

\* The arguments of the tool calls: for a scrape, for a search, empty, and
\* with values of a type the request models reject.
ToolArguments ==
    {EmptyDict,
     [url |-> Json("string", "u1")],
     [url |-> Json("string", "u2")],
     [url |-> Json("string", "u1"), force_refresh |-> Json("boolean", TRUE)],
     [url |-> Json("string", "u1"), query |-> Json("string", <<"a">>)],
     [url |-> JsonObject({})],
     [url |-> Json("string", "u2"), force_refresh |-> JsonObject({})],
     [query |-> Json("string", <<"a">>)],
     [query |-> Json("string", <<"A", "B">>), max_results |-> Json("integer", 1)],
     [query |-> Json("string", <<"a">>), max_results |-> JsonObject({})]}

RegisteredTools == {"scrape_documentation", "search_documentation", "health_check"}

\* The responses the web can give to the call: drawn when the handler reaches
\* the fetch, one that is never looked at otherwise.
FetchOutcomes(arguments) ==
    IF /\ ScrapeUrlRequestValid(arguments)
       /\ \/ ScrapeUrlRequest(arguments).force_refresh
          \/ ~Truthy(Get(cache, ScrapeUrlRequest(arguments).url, NoneDict))
    THEN Responses(ScrapeUrlRequest(arguments).url)
    ELSE {[status_code |-> 404]}

\* The outcomes of the steps after the fetch: drawn when the handler reaches
\* them.
AfterFetch(resp, outcomes) ==
    IF "raised" \notin DOMAIN resp /\ resp.status_code = 200 THEN outcomes ELSE {"ok"}

AfterParse(resp, parse_io, outcomes) ==
    IF parse_io = "ok" THEN AfterFetch(resp, outcomes) ELSE {"ok"}

CallScrapeDocumentation ==
    \E arguments \in ToolArguments :
        \E resp \in FetchOutcomes(arguments) :
            \E parse_io \in AfterFetch(resp, ParseOutcomes) :
                \E index_io \in AfterParse(resp, parse_io, IOOutcomes),
                   cache_io \in AfterParse(resp, parse_io, SaveOutcomes) :
                    call_tool("scrape_documentation", arguments,
                              resp, parse_io, index_io, cache_io)

CallSearchDocumentation ==
    \E arguments \in ToolArguments, index_io \in {"ok", "read_error"} :
        call_tool("search_documentation", arguments,
                  [status_code |-> 404], "ok", index_io, "ok")

CallHealthCheck ==
    \E arguments \in ToolArguments :
        call_tool("health_check", arguments, [status_code |-> 404], "ok", "ok", "ok")

CallUnknownTool ==
    \E t \in {"unknown_tool", "scrape_url"}, arguments \in ToolArguments :
        call_tool(t, arguments, [status_code |-> 404], "ok", "ok", "ok")

NextServer ==
    CallScrapeDocumentation \/ CallSearchDocumentation \/ CallHealthCheck \/ CallUnknownTool

SpecServer == Init /\ [][NextServer]_vars

(***************************************************************************)
(* The summary of an entry: documents reach index_document from            *)
(* parse_content, which computes a summary, or from a caller that passes   *)
(* its own dict.                                                           *)
(***************************************************************************)
\* The lengths of the page contents: none, short, the limit, one beyond it.
ContentLengths == {0, 1, SummaryLimit, SummaryLimit + 1}

\* Pages of one paragraph of n characters.
Pages == {[title |-> <<"b">>, p |-> <<[i \in 1..n |-> "a"]>>] : n \in ContentLengths}

\* server.py:180-183: the parsed page is handed to index_document
ParseAndIndex ==
    \E html \in Pages, url \in Keys :
        /\ Len(NewIndex(indexFile, parse_content(html, url))) <= MaxIndex
        /\ index_document(parse_content(html, url), "ok")

\* index_document called with a dict of the caller's own
IndexOwnDocument ==
    \E d \in {e \in IODocs : e.url = "u3"} \cup
              {[url |-> "u3", title |-> <<"b">>, content |-> <<"a">>, summary |-> <<"B">>]} :
        /\ Len(NewIndex(indexFile, d)) <= MaxIndex
        /\ index_document(d, "ok")

NextSummary == ParseAndIndex \/ IndexOwnDocument

SpecSummary == Init /\ [][NextSummary]_vars

(***************************************************************************)
(* The two boundaries that return a result envelope, execute and call_tool.*)
(* The tools and the server share no state, so a run exercises the one or  *)
(* the other.                                                              *)
(***************************************************************************)
ExecuteRun == tool_call.tool = "" /\ NextExecute

CallToolRun == parameters = EmptyDict /\ toolResult = NoneDict /\ NextServer

NextBoundaries == ExecuteRun \/ CallToolRun

SpecBoundaries == Init /\ [][NextBoundaries]_vars

(***************************************************************************)
(* Claims about the index and the search.                                  *)
(***************************************************************************)
\* The url of the entry derived from a document.
EntryUrl(d) == Get(d, "url", "")

\* The positions of the entries of an index that carry url u.
EntriesFor(index, u) == {i \in 1..Len(index) : index[i].url = u}

\* q occurs in text when letter case is ignored.
OccursIgnoringCase(q, text) ==
    \E off \in 0..(Len(text) - Len(q)) :
        \A k \in 1..Len(q) : CharLower(text[off + k]) = CharLower(q[k])

\* The score the specification gives entry e for query q.
ExpectedScore(e, q) ==
    (IF OccursIgnoringCase(q, e.title) THEN 3 ELSE 0)
    + (IF OccursIgnoringCase(q, e.content) THEN 1 ELSE 0)

\* The positions of the index whose entries score for the last query.
ScoringPositions ==
    {p \in 1..Len(indexFile) : ExpectedScore(indexFile[p], query) > 0}

\* C1: when index_document(d1) succeeds and index_document(d2) succeeds right
\* after it, d1 and d2 having equal url, the index then holds exactly one entry
\* for that url and it is the entry derived from d2.
C1_ReindexReplaces ==
    [][(/\ op = "index_document" /\ ret
        /\ op' = "index_document" /\ ret'
        /\ EntryUrl(data) = EntryUrl(data'))
       => (/\ Cardinality(EntriesFor(indexFile', EntryUrl(data'))) = 1
           /\ \A i \in EntriesFor(indexFile', EntryUrl(data')) :
                  indexFile'[i] = doc_entry(data'))]_vars

\* C2: in every state reached by index_document calls from the empty index, no
\* two entries of the index have the same url (the url of a document without a
\* url field being the empty string).
C2_UniqueUrls ==
    \A i, j \in 1..Len(indexFile) :
        i # j => indexFile[i].url # indexFile[j].url

\* The place of position p in the ranking: one more than the number of scoring
\* entries that score higher, or as much and stand earlier in the index.
Rank(p) ==
    1 + Cardinality({r \in ScoringPositions :
            \/ ExpectedScore(indexFile[r], query) > ExpectedScore(indexFile[p], query)
            \/ /\ ExpectedScore(indexFile[r], query) = ExpectedScore(indexFile[p], query)
               /\ r < p})

\* The number of results max_results admits (a negative max_results drops
\* that many from the end of the ranking).
Admitted ==
    IF max_results >= 0 THEN max_results
    ELSE Max(Cardinality(ScoringPositions) + max_results, 0)

\* C3: every result of search is an index entry carrying its score, which is 3
\* for a case-insensitive occurrence of the query in the title plus 1 for one
\* in the content; no entry is returned twice; and an entry is returned if and
\* only if its score is greater than 0 and max_results admits its rank.
C3_ScoringDecidesResults ==
    op = "search" =>
        /\ Len(retPos) = Len(results)
        /\ \A i \in 1..Len(results) :
              /\ retPos[i] \in 1..Len(indexFile)
              /\ results[i] = WithScore(indexFile[retPos[i]],
                                        ExpectedScore(indexFile[retPos[i]], query))
        /\ \A i, j \in 1..Len(results) : i # j => retPos[i] # retPos[j]
        /\ \A p \in 1..Len(indexFile) :
              (\E i \in 1..Len(retPos) : retPos[i] = p)
              <=> (ExpectedScore(indexFile[p], query) > 0 /\ Rank(p) <= Admitted)

\* C3's case: a search whose query is typed in another case than the title it
\* matches returns an entry scoring 4 and an entry scoring 1 and leaves an
\* entry scoring 0 out.
C3_Witness ==
    /\ op = "search"
    /\ max_results >= Len(indexFile)
    /\ Len(indexFile) = 3
    /\ Len(results) = 2
    /\ {results[i].score : i \in 1..Len(results)} = {4, 1}
    /\ \E i \in 1..Len(results) : results[i].score = 4 /\ ~Contains(query, results[i].title)

\* C4: the results of search are in descending order of score, and two results
\* of equal score are in the order their entries have in the index.
C4_SortedStable ==
    op = "search" =>
        \A i, j \in 1..Len(results) :
            i < j =>
                /\ results[i].score >= results[j].score
                /\ results[i].score = results[j].score => retPos[i] < retPos[j]

\* C4's case: three results, the first one moved ahead of two entries that
\* precede it in the index, these two tied and kept in index order.
C4_Witness ==
    /\ op = "search"
    /\ Len(results) = 3
    /\ results[1].score > results[2].score
    /\ results[2].score = results[3].score
    /\ retPos = <<3, 1, 2>>

C6_EmptyQueryReturnsNothing ==
    (op = "search" /\ query = <<>>) => results = <<>>

\* C7: when index_document(d) has succeeded, a search that follows it with a
\* non-empty query occurring in d's title (case ignored) raises nothing and
\* returns a non-empty list holding d's entry, through DocumentIndexer.search
\* with its default max_results and through SearchEngine.search.
C7_IndexedThenFound ==
    [][(/\ op = "index_document" /\ ret
        /\ \/ op' = "search" /\ max_results' = DefaultMaxResults
           \/ op' = "SearchEngine.search"
        /\ query' # <<>>
        /\ OccursIgnoringCase(query', doc_entry(data).title))
       => (/\ exc' = ""
           /\ results' # <<>>
           /\ \E i \in 1..Len(results') :
                 /\ results'[i].url = doc_entry(data).url
                 /\ results'[i].title = doc_entry(data).title
                 /\ results'[i].content = doc_entry(data).content)]_vars

\* The half of C7 that goes through DocumentIndexer.search alone.
C7_DirectSearchFinds ==
    [][(/\ op = "index_document" /\ ret
        /\ op' = "search" /\ max_results' = DefaultMaxResults
        /\ query' # <<>>
        /\ OccursIgnoringCase(query', doc_entry(data).title))
       => (/\ exc' = ""
           /\ \E i \in 1..Len(results') :
                 results'[i] = WithScore(doc_entry(data), results'[i].score))]_vars

(***************************************************************************)
(* Claims about the cache.                                                 *)
(***************************************************************************)
\* C8: a get_document(key) that follows cache_document(key, doc) directly
\* returns doc, and get_document of a key not given to cache_document since
\* the last completed clear_cache (or ever) returns None.
C8_GetAfterPut ==
    op = "get_document" =>
        /\ (prevCall.op = "cache_document" /\ prevCall.doc_id = doc_id)
              => cached = prevCall.cached
        /\ doc_id \notin putKeys => cached = NoneDict

\* C8's case: a get_document right after a cache_document returns the document
\* just cached, here one whose save raised, so that the snapshot still holds
\* the key's older document.
C8_Witness ==
    /\ op = "get_document"
    /\ prevCall.op = "cache_document"
    /\ prevCall.doc_id = doc_id
    /\ cached \in CacheDocs
    /\ doc_id \in DOMAIN cache
    /\ cacheFileOk
    /\ doc_id \in DOMAIN cacheFile
    /\ cacheFile[doc_id] # cached

\* C9: cache_document(k, d) maps k to d; every operation on the cache object
\* other than cache_document(k, _) and clear_cache leaves the value of k as it
\* is, and get_document(k) returns that value; clear_cache leaves no key.
C9_NoExpiry ==
    [][/\ op' = "cache_document" => Get(cache', doc_id', NoneDict) = cached'
       /\ \A k \in Keys :
             (/\ op' \notin {"clear_cache", "LocalCache"}
              /\ ~(op' = "cache_document" /\ doc_id' = k))
             => Get(cache', k, NoneDict) = Get(cache, k, NoneDict)
       /\ op' = "get_document" => cached' = Get(cache, doc_id', NoneDict)
       /\ op' = "clear_cache" => \A k \in Keys : Get(cache', k, NoneDict) = NoneDict
      ]_vars

\* C9's case: a get_document returns the document of its key after the other
\* key was cached too, with a different document, and again at the next get.
C9_Witness ==
    /\ op = "get_document"
    /\ prevCall.op = "get_document"
    /\ prevCall.doc_id = doc_id
    /\ cached \in CacheDocs
    /\ cached = prevCall.cached
    /\ DOMAIN cache = Keys
    /\ cache["u1"] # cache["u2"]

(***************************************************************************)
(* Claims about validate_parameters.                                       *)
(***************************************************************************)
\* The keys the schema of capability `name` of tool t lists as required.
RequiredKeys(t, name) ==
    {key \in ParamKeys :
        \E i \in 1..Len(capabilities(t)) :
            /\ capabilities(t)[i].name = name
            /\ "required" \in DOMAIN capabilities(t)[i].input_schema
            /\ \E j \in 1..Len(capabilities(t)[i].input_schema.required) :
                  capabilities(t)[i].input_schema.required[j] = key}

\* C10: validate_parameters returns False exactly when the tool does not
\* declare the capability name or a key of the capability's 'required' list is
\* not a key of the parameters, whatever the values of the parameters are.
C10_ValidateParameters ==
    op = "validate_parameters" =>
        (valid = FALSE <=>
            \/ capability_name \notin DeclaredNames(tool)
            \/ \E key \in RequiredKeys(tool, capability_name) :
                  key \notin DOMAIN parameters)

\* C10's case: the two required keys of update_document, both present with
\* null values, are accepted.
C10_Witness ==
    /\ op = "validate_parameters"
    /\ tool = "indexing_tool"
    /\ capability_name = "update_document"
    /\ parameters = [document_id |-> None, updates |-> None]
    /\ valid

(***************************************************************************)
(* Claims about execute.                                                   *)
(***************************************************************************)
\* C11: execute of ScrapingTool, SearchTool and IndexingTool with a capability
\* name the tool does not declare returns success=False with the error
\* "Unknown capability: <name>", and invokes no capability operation.
C11_UnknownCapability ==
    (op = "execute" /\ capability_name \notin DeclaredNames(tool)) =>
        /\ toolResult.success = FALSE
        /\ toolResult.error = FString(<<"Unknown capability: ", capability_name>>)
        /\ calls = <<>>
        /\ raised = NoneDict

\* C11's case: the indexing tool is given, with parameters, a name that only
\* the search tool declares.
C11_Witness ==
    /\ op = "execute"
    /\ tool = "indexing_tool"
    /\ capability_name = "search"
    /\ "query" \in DOMAIN parameters
    /\ toolResult.error = FString(<<"Unknown capability: ", "search">>)

\* C12: no exception escapes execute; when the work of the capability raises,
\* execute returns a ToolResult with success=False and an error message.
C12_NoExceptionEscapes ==
    op = "execute" =>
        /\ exc = ""
        /\ toolResult # NoneDict
        /\ raised # NoneDict =>
              /\ toolResult.success = FALSE
              /\ toolResult.error # NoneDict
              /\ toolResult.error.str # <<>>

\* C12's case: the operation was invoked with parameters that bind, it raised,
\* and the ToolResult carries the message.
C12_Witness ==
    /\ op = "execute"
    /\ calls # <<>>
    /\ raised # NoneDict
    /\ implementation = "raises"
    /\ toolResult.success = FALSE
    /\ toolResult.error =
          FString(<<"Error executing ", capability_name, ": ", "fault in ", capability_name>>)

\* A key the schema requires is missing: at the top level, or in the document
\* given to add_document.
MissingRequiredKey(t, name, params) ==
    \/ \E key \in RequiredKeys(t, name) : key \notin DOMAIN params
    \/ /\ name = "add_document"
       /\ "document" \in DOMAIN params
       /\ params["document"].type = "object"
       /\ \E i \in 1..Len(IndexingToolCapabilities[1].input_schema.properties.document.required) :
             IndexingToolCapabilities[1].input_schema.properties.document.required[i]
                 \notin params["document"].keys

\* C13: when a key the capability's schema requires is missing from the
\* parameters, execute does not run the capability's operation and returns
\* success=False with an error that is not None.
C13_MissingRequiredNotRun ==
    (/\ op = "execute"
     /\ capability_name \in DeclaredNames(tool)
     /\ MissingRequiredKey(tool, capability_name, parameters)) =>
        /\ calls = <<>>
        /\ toolResult # NoneDict
        /\ toolResult.success = FALSE
        /\ toolResult.error # NoneDict

\* C13's case: update_document is given its document_id but not its updates,
\* and its operation is one that would return.
C13_Witness ==
    /\ op = "execute"
    /\ capability_name = "update_document"
    /\ DOMAIN parameters = {"document_id"}
    /\ implementation = "returns"
    /\ calls = <<>>
    /\ toolResult.success = FALSE

\* The parameters satisfy the schema of capability `name`: no required key is
\* missing, and the document is an object.
SatisfiesSchema(t, name, params) ==
    /\ ~MissingRequiredKey(t, name, params)
    /\ (name = "add_document" /\ "document" \in DOMAIN params) =>
          params["document"].type = "object"

\* The keys a schema lists under 'properties' (src/tools, the capabilities
\* properties), for the capabilities whose parameters are bound by name.
ListedKeys(name) ==
    CASE name = "search" -> {"query", "search_type", "limit", "filters", "include_snippets"}
      [] name = "suggest" -> {"partial_query", "limit"}
      [] name = "similar" -> {"document_id", "limit", "threshold"}
      [] name = "get_document" -> {"document_id", "include_content"}
      [] name = "list_documents" -> {"source", "tags", "limit", "offset", "include_content"}
      [] name = "add_document" -> {"document", "update_if_exists"}
      [] OTHER -> ParamKeys

\* The keys the schema of add_document lists for the document.
ListedDocumentKeys == {"id", "title", "content", "url", "source", "tags", "metadata"}

\* Every key of the parameters, and of the document, is one the schema lists.
OnlyListedKeys(name, params) ==
    /\ DOMAIN params \subseteq ListedKeys(name)
    /\ (name = "add_document" /\ "document" \in DOMAIN params
            /\ params["document"].type = "object") =>
          params["document"].keys \subseteq ListedDocumentKeys

\* What execute returns as data for the value an operation returned.
ExpectedData(name, value) ==
    CASE name = "add_document" -> [added |-> value]
      [] name = "update_document" -> [updated |-> value]
      [] name = "remove_document" -> [removed |-> value]
      [] name = "rebuild_index" -> [rebuilt |-> value]
      [] OTHER -> value

\* execute invoked the operation named capability_name once, and returned
\* success=True with the data made of what the operation returned.
RoutedOnce ==
    /\ Len(calls) = 1
    /\ calls[1].name = capability_name
    /\ toolResult.success = TRUE
    /\ toolResult.error = NoneDict
    /\ toolResult.data = ExpectedData(capability_name, calls[1].returned)

\* The names execute of tool t has a branch for are the names t declares.
RecognisesDeclared ==
    \A t \in ExecutingTools :
        \A name \in UNION {CapabilityNameArgs(u) : u \in ExecutingTools} :
            (Branch(t, name) # "else") <=> (name \in DeclaredNames(t))

\* C15: for every capability name a tool declares, execute with parameters that
\* satisfy the schema invokes the operation of that name exactly once and, the
\* operation returning, returns success=True with data carrying the returned
\* value (under the key added, updated, removed or rebuilt for the indexing
\* mutations); execute recognises exactly the declared names.
C15_RoutesDeclared ==
    /\ RecognisesDeclared
    /\ (/\ op = "execute"
        /\ capability_name \in DeclaredNames(tool)
        /\ SatisfiesSchema(tool, capability_name, parameters)
        /\ implementation = "returns") => RoutedOnce

\* The routing of C15 for parameters that hold no key beyond the ones the
\* schema lists.
C15_RoutesListedKeys ==
    /\ RecognisesDeclared
    /\ (/\ op = "execute"
        /\ capability_name \in DeclaredNames(tool)
        /\ SatisfiesSchema(tool, capability_name, parameters)
        /\ OnlyListedKeys(capability_name, parameters)
        /\ implementation = "returns") => RoutedOnce

\* The case of C15_RoutesListedKeys: add_document with a document that has the
\* required keys and a url, added by an operation that returns True.
C15_RoutesListedKeys_Witness ==
    /\ op = "execute"
    /\ capability_name = "add_document"
    /\ DOMAIN parameters = {"document"}
    /\ parameters["document"] = JsonObject({"id", "title", "content", "url"})
    /\ toolResult.success = TRUE
    /\ toolResult.data = [added |-> TRUE]

(***************************************************************************)
(* Claims about the index over a storage that fails.                       *)
(***************************************************************************)
\* C18: index_document returns True exactly when it wrote the new list of
\* entries to the file, returns False whenever reading or writing the file
\* failed, and raises nothing.
C18_TrueIffPersisted ==
    [][op' = "index_document" =>
          /\ exc' = ""
          /\ ret' \in BOOLEAN
          /\ ret' = TRUE <=> (indexFileOk /\ fileIO' = "ok")
          /\ ret' = TRUE =>
                (indexFileOk' /\ indexFile' = NewIndex(indexFile, data'))
          /\ ret' = FALSE =>
                \/ indexFile' = indexFile /\ indexFileOk' = indexFileOk
                \/ ~indexFileOk']_vars

\* C18's case: with two entries in the file, the write of a third could not
\* open the file; False was returned and the two entries are still there.
C18_Witness ==
    /\ op = "index_document"
    /\ fileIO = "open_error"
    /\ ret = FALSE
    /\ indexFileOk
    /\ Len(indexFile) = 2
    /\ \A i \in 1..Len(indexFile) : indexFile[i].url # data.url

\* C19: index_document replaces the file atomically: after a call, failed or
\* not, the file holds the complete list it held before or the complete new
\* list, never an empty or partial content.
C19_AtomicReplace ==
    [][(op' = "index_document" /\ indexFileOk) =>
          /\ indexFileOk'
          /\ indexFile' \in {indexFile, NewIndex(indexFile, data')}]_vars

\* The file is missing or does not parse, and the file operations of the call
\* that is made raise nothing else.
SnapshotUnusable == ~indexFileOk /\ fileIO' = "ok"

\* The load of the index fails in the call that is made: the file is missing
\* or does not parse, or reading it raises.
LoadFails == SnapshotUnusable \/ fileIO' = "read_error"

\* C20: a failure to load the index file is treated as an empty index: search
\* returns [] and raises nothing, and index_document(d) succeeds and leaves an
\* index that holds exactly the entry derived from d.
C20_LoadFailureIsEmptyIndex ==
    [][/\ (LoadFails /\ op' = "search") => (results' = <<>> /\ exc' = "")
       /\ (SnapshotUnusable /\ op' = "index_document") =>
             /\ ret' = TRUE
             /\ indexFileOk'
             /\ indexFile' = <<doc_entry(data')>>]_vars

\* The search half of C20: when the load fails search returns [] and raises
\* nothing.
C20_SearchOnLoadFailure ==
    [][(LoadFails /\ op' = "search") => (results' = <<>> /\ exc' = "")]_vars

\* The case of C20_SearchOnLoadFailure: the file holds an entry that matches
\* the query, reading it raised, and nothing was returned.
C20_SearchOnLoadFailure_Witness ==
    /\ op = "search"
    /\ fileIO = "read_error"
    /\ indexFileOk
    /\ \E i \in 1..Len(indexFile) : score(indexFile[i], Lower(query)) > 0
    /\ results = <<>>

(***************************************************************************)
(* Claims about the result envelopes and about call_tool.                  *)
(***************************************************************************)
\* An envelope with success true has no error, one with success false no data.
WellFormed(r) ==
    /\ r # NoneDict
    /\ r.success \in BOOLEAN
    /\ r.success = TRUE => r.error = NoneDict
    /\ r.success = FALSE => r.data = NoneDict

\* C14: every ToolResult that execute returns and every response that
\* call_tool returns has error None when success is true and data None when
\* success is false.
C14_SuccessOrError ==
    /\ op = "execute" => WellFormed(toolResult)
    /\ op = "call_tool" => WellFormed(response)

\* C14's case: a scrape was dispatched and completed; the response carries the
\* handler's dict as data and no error.
C14_Witness ==
    /\ op = "call_tool"
    /\ response.success = TRUE
    /\ response.error = NoneDict
    /\ response.data # NoneDict
    /\ "source" \in DOMAIN response.data
    /\ response.data.source = "scraped"

\* C16: call_tool with a tool name that is not registered returns
\* success=False with the error "Unknown tool: <name>", invokes no handler,
\* changes neither the index nor the cache, and raises nothing.
C16_UnknownTool ==
    [][(op' = "call_tool" /\ tool_call'.tool \notin RegisteredTools) =>
          /\ response' =
                ToolResponse(FALSE, NoneDict, FString(<<"Unknown tool: ", tool_call'.tool>>))
          /\ handled' = <<>>
          /\ steps' = <<>>
          /\ exc' = ""
          /\ UNCHANGED <<indexFile, indexFileOk, indexFileExists,
                         cache, cacheFile, cacheFileOk>>]_vars

\* C16's case: with an entry in the index and in the cache, a tool that is
\* not registered is called with the arguments of a forced scrape.
C16_Witness ==
    /\ op = "call_tool"
    /\ tool_call.tool = "unknown_tool"
    /\ DOMAIN tool_call.arguments = {"url", "force_refresh"}
    /\ indexFile # <<>>
    /\ DOMAIN cache # {}
    /\ response.success = FALSE
    /\ handled = <<>>

\* C17: call_tool with a registered tool name returns a response for any
\* arguments and any fault: success=False with the message of the fault when
\* the request validation or a collaborator raised, success=True only when the
\* handler completed; nothing is raised.
C17_EveryPathResponds ==
    (op = "call_tool" /\ tool_call.tool \in RegisteredTools) =>
        /\ exc = ""
        /\ response # NoneDict
        /\ Len(handled) = 1
        /\ fault # NoneDict =>
              /\ response.success = FALSE
              /\ response.error = FString(str(fault))
        /\ fault = NoneDict =>
              /\ response.success = TRUE
              /\ response.data # NoneDict

\* C17's case: the scrape handler's last collaborator, the cache, could not
\* save; the response reports the fault.
C17_Witness ==
    /\ op = "call_tool"
    /\ tool_call.tool = "scrape_documentation"
    /\ fault # NoneDict
    /\ fault.type = "OSError"
    /\ steps[Len(steps)] = "cache_document"
    /\ response.success = FALSE
    /\ response.error = FString(<<"cannot write ", "cache/local_cache.json">>)

(***************************************************************************)
(* Claims about the scrape handler and the two stores it writes.          *)
(***************************************************************************)
\* The calls a handler made, as a set.
Made(done) == {done[i] : i \in 1..Len(done)}

\* The url of a scrape call and the document the handler parses from its page.
CallUrl(call) == call.arguments["url"].value
ParsedFor(call) == parse_content(WebPage(CallUrl(call)), CallUrl(call))

\* C21: a dispatched scrape_documentation call whose index write or whose
\* cache write failed returns success=False.
C21_SaveFailureReported ==
    [][(/\ op' = "call_tool"
        /\ tool_call'.tool = "scrape_documentation"
        /\ "index_document" \in Made(steps')) =>
          LET indexWritten ==
                  /\ indexFileOk /\ indexFileOk'
                  /\ indexFile' = NewIndex(indexFile, ParsedFor(tool_call'))
              cacheWritten == cacheFileOk' /\ cacheFile' = cache'
          IN  (~indexWritten \/ ~cacheWritten) => response'.success = FALSE]_vars

\* The half of C21 about the cache: a scrape call whose cache write failed
\* returns success=False.
C21_CacheSaveFailureReported ==
    [][(/\ op' = "call_tool"
        /\ tool_call'.tool = "scrape_documentation"
        /\ "cache_document" \in Made(steps')) =>
          (~(cacheFileOk' /\ cacheFile' = cache') => response'.success = FALSE)]_vars

\* The case of C21's cache half: a scrape call reached cache_document, the
\* snapshot was not written and the response says so.
C21_CacheSaveFailureReported_Witness ==
    /\ op = "call_tool"
    /\ tool_call.tool = "scrape_documentation"
    /\ "cache_document" \in Made(steps)
    /\ ~cacheFileOk
    /\ DOMAIN cache # {}
    /\ response.success = FALSE

(***************************************************************************)
(* Claims about the lookup and the removal of the indexer.                 *)
(***************************************************************************)
\* The entries of an index whose url is not u, in order.
EntriesBeside(index, u) == SelectSeq(index, LAMBDA e : e.url # u)

\* The entry of an index whose url is u, None when there is none.
EntryAt(index, u) ==
    IF EntriesFor(index, u) = {} THEN NoneDict
    ELSE index[CHOOSE i \in EntriesFor(index, u) : \A j \in EntriesFor(index, u) : i <= j]

\* C22: get_document(url) returns the index entry whose url is the argument,
\* None when there is none; after delete_document(url) the index has no entry
\* with that url and every other entry is as before.
C22_GetAndRemove ==
    [][/\ op' = "DocumentIndexer.get_document" =>
            lookup_result' = EntryAt(indexFile, document_id')
       /\ op' = "DocumentIndexer.delete_document" =>
            /\ EntriesFor(indexFile', document_id') = {}
            /\ EntriesBeside(indexFile', document_id') = EntriesBeside(indexFile, document_id')
      ]_vars

\* What holds of the two methods: get_document returns None and
\* delete_document leaves the index as it is, whatever the index holds.
C22_Placeholders ==
    [][/\ op' = "DocumentIndexer.get_document" =>
            lookup_result' = NoneDict /\ indexFile' = indexFile
       /\ op' = "DocumentIndexer.delete_document" => indexFile' = indexFile
      ]_vars

\* The case of C22_Placeholders: get_document was called with the url of an
\* entry the index holds.
C22_Placeholders_Witness ==
    /\ op = "DocumentIndexer.get_document"
    /\ EntriesFor(indexFile, document_id) # {}
    /\ lookup_result = NoneDict

(***************************************************************************)
(* Claims about is_healthy.                                                *)
(***************************************************************************)
\* C23: is_healthy of the cache and of the indexer raises nothing, returns
\* True when the storage location (the cache directory, the index file)
\* exists and the test did not go wrong, False otherwise, and changes neither
\* the disk nor the cache.
C23_HealthCheck ==
    [][/\ op' = "LocalCache.is_healthy" =>
            /\ exc' = ""
            /\ healthy' = (cacheDirExists /\ ~healthFault')
       /\ op' = "DocumentIndexer.is_healthy" =>
            /\ exc' = ""
            /\ healthy' = (indexFileExists /\ ~healthFault')
       /\ op' \in {"LocalCache.is_healthy", "DocumentIndexer.is_healthy"} =>
            UNCHANGED <<cacheDirExists, indexFile, indexFileOk, indexFileExists,
                        cache, cacheFile, cacheFileOk>>
      ]_vars

\* C23's case: the test of the cache directory went wrong while the directory
\* was there, and is_healthy answered False.
C23_Witness ==
    /\ op = "LocalCache.is_healthy"
    /\ healthFault
    /\ cacheDirExists
    /\ DOMAIN cache # {}
    /\ healthy = FALSE
    /\ exc = ""

\* The other cases of C23: the index file is gone while the directory is
\* there and the indexer answers False; both are there and it answers True.
C23_Witness_Missing ==
    /\ op = "DocumentIndexer.is_healthy"
    /\ ~healthFault /\ ~indexFileExists /\ cacheDirExists /\ healthy = FALSE

C23_Witness_Present ==
    /\ op = "DocumentIndexer.is_healthy"
    /\ ~healthFault /\ indexFileExists /\ indexFile # <<>> /\ healthy = TRUE

(***************************************************************************)
(* Claims about concurrent callers.                                        *)
(***************************************************************************)
\* Both callers have returned from the call named.
BothReturned(call) ==
    \A c \in Callers : pc[c] = "returned" /\ frame[c].call = call

\* C24: when two index_document calls for distinct urls, or two
\* cache_document calls for distinct keys, were issued at the same time and
\* both have returned, the store holds both entries; for the same url or key
\* it holds the entry of one of the two.
C24_NoLostUpdate ==
    /\ BothReturned("index_document") =>
          /\ indexFileOk
          /\ \A c \in Callers :
                Cardinality(EntriesFor(indexFile, EntryUrl(frame[c].data))) = 1
          /\ \A i \in 1..Len(indexFile) :
                \E c \in Callers : indexFile[i] = doc_entry(frame[c].data)
    /\ BothReturned("cache_document") =>
          /\ cacheFileOk
          /\ cacheFile = cache
          /\ \A c \in Callers :
                /\ frame[c].doc_id \in DOMAIN cacheFile
                /\ \E b \in Callers :
                      /\ frame[b].doc_id = frame[c].doc_id
                      /\ cacheFile[frame[c].doc_id] = frame[b].data

\* The half of C24 about the cache, for threads sharing one LocalCache whose
\* dump is not interrupted.
C24_CachePutsKept ==
    BothReturned("cache_document") =>
        /\ cacheFileOk
        /\ cacheFile = cache
        /\ \A c \in Callers : frame[c].doc_id \in DOMAIN cacheFile

\* The case of C24_CachePutsKept: two puts for distinct keys returned.
C24_CachePutsKept_Witness ==
    /\ BothReturned("cache_document")
    /\ frame["c1"].doc_id # frame["c2"].doc_id
    /\ DOMAIN cacheFile = Keys

(***************************************************************************)
(* Claims about the snapshot of the cache.                                 *)
(***************************************************************************)
\* The snapshot file holds the in-memory dict, and a LocalCache constructed
\* from it gives the same value for every key.
SnapshotIsCache ==
    /\ cacheFileOk
    /\ cacheFile = cache
    /\ \A key \in Keys : Get(load_cache, key, NoneDict) = Get(cache, key, NoneDict)

\* C25: after every cache_document and clear_cache that completed, the
\* snapshot file equals the in-memory dict and a cache constructed from it
\* returns the same value for every key; when the two differ after such a
\* call, the call raised.
C25_SnapshotOnMutation ==
    op \in {"cache_document", "clear_cache"} =>
        /\ exc = "" => SnapshotIsCache
        /\ ~SnapshotIsCache => exc = "OSError"

\* C25's case: a cache_document completed after another mutation; the
\* snapshot holds the two keys of the dict.
C25_Witness ==
    /\ op = "cache_document"
    /\ exc = ""
    /\ prevCall.op \in {"cache_document", "clear_cache"}
    /\ DOMAIN cache = Keys
    /\ SnapshotIsCache

\* C25's other case: the save failed, the dict holds an entry the snapshot
\* does not, and the call raised.
C25_Witness_Failed ==
    /\ op = "cache_document"
    /\ exc = "OSError"
    /\ doc_id \in DOMAIN cache
    /\ ~SnapshotIsCache

(***************************************************************************)
(* Claims about the summary of an entry.                                   *)
(***************************************************************************)
\* The first SummaryLimit characters of a content, with the marker '...'
\* when the content is longer.
Ellipsis == <<".", ".", ".">>
Summarised(content) ==
    IF Len(content) > SummaryLimit
    THEN SubSeq(content, 1, SummaryLimit) \o Ellipsis
    ELSE content

\* C26: the summary of every entry of the index is the first 500 characters
\* of its content, followed by the marker exactly when the content is longer;
\* an empty content has an empty summary.
C26_SummaryOfContent ==
    indexFileOk =>
        \A i \in 1..Len(indexFile) :
            /\ indexFile[i].summary = Summarised(indexFile[i].content)
            /\ indexFile[i].content = <<>> => indexFile[i].summary = <<>>

\* The part of C26 that holds: an entry stores the summary of the dict it was
\* made from, and the dict parse_content returns carries the summary of its
\* content.
C26_ParsedSummary ==
    (op = "index_document" /\ ret /\ "summary" \in DOMAIN data) =>
        /\ indexFile[Len(indexFile)].summary = data.summary
        /\ data \in {parse_content(html, url) : html \in Pages, url \in Keys} =>
              indexFile[Len(indexFile)].summary = Summarised(data.content)

\* The case of C26_ParsedSummary: the content of a parsed page is one
\* character longer than the limit and its entry's summary ends in the marker.
C26_ParsedSummary_Witness ==
    /\ op = "index_document" /\ ret
    /\ "summary" \in DOMAIN data
    /\ Len(data.content) = SummaryLimit + 1
    /\ Len(indexFile[Len(indexFile)].summary) = SummaryLimit + Len(Ellipsis)
    /\ \E j \in 1..Len(indexFile) : Len(indexFile[j].content) = SummaryLimit
                                     /\ indexFile[j].summary = indexFile[j].content

(***************************************************************************)
(* Claims about what search and index_document leave alone.                *)
(***************************************************************************)
\* C27: search changes neither the entries of the index nor their order, no
\* entry of the index carries a score after it, and a search with the
\* arguments of the search before it, the index being the same, returns the
\* same list.
C27_SearchReadOnly ==
    [][op' = "search" =>
          /\ indexFile' = indexFile
          /\ indexFileOk' = indexFileOk
          /\ \A i \in 1..Len(indexFile') : "score" \notin DOMAIN indexFile'[i]
          /\ (op = "search" /\ query' = query /\ max_results' = max_results) =>
                results' = results]_vars

\* C27's case: a search over an index of three entries returned two of them
\* with their scores, and the entries of the index carry none.
C27_Witness ==
    /\ op = "search"
    /\ Len(indexFile) = MaxIndex
    /\ Len(results) >= 2
    /\ \A i \in 1..Len(results) : results[i].score > 0
    /\ \A i \in 1..Len(indexFile) : "score" \notin DOMAIN indexFile[i]

\* C28: an index_document(d) that returned True kept every entry whose url
\* differs from d's, unchanged and in the same order, and made the entry
\* derived from d the last entry of the index.
C28_OnlyOwnEntry ==
    [][(op' = "index_document" /\ ret') =>
          /\ EntriesBeside(indexFile', EntryUrl(data')) =
                EntriesBeside(indexFile, EntryUrl(data'))
          /\ indexFile' # <<>>
          /\ indexFile'[Len(indexFile')] = doc_entry(data')
          /\ Len(indexFile') <= Len(indexFile) + 1]_vars

\* C28's case: the index holds entries of other urls before the entry of the
\* document indexed last, which differs from them.
C28_Witness ==
    /\ op = "index_document" /\ ret
    /\ Len(indexFile) = MaxIndex
    /\ indexFile[Len(indexFile)] = doc_entry(data)
    /\ EntryUrl(data) = "u1"
    /\ indexFile[1].url = "u2"
    /\ Len(EntriesBeside(indexFile, "u1")) = MaxIndex - 1

(***************************************************************************)
(* Claims about the cache hit, the refresh and the failures of a scrape.   *)
(***************************************************************************)
\* A scrape call whose arguments pass the request validation.
ScrapeCalled(call) ==
    /\ call.tool = "scrape_documentation"
    /\ ScrapeUrlRequestValid(call.arguments)

\* The call finds its url in the cache and is not told to refresh.
CacheHit(call) ==
    /\ ~ScrapeUrlRequest(call.arguments).force_refresh
    /\ Truthy(Get(cache, CallUrl(call), NoneDict))

\* The calls of a scrape that fetched and stored, in order.
FetchThenStore == <<"scrape_article", "parse_content", "index_document", "cache_document">>

\* What the claim says of a cache hit: the cached document is returned with
\* source "cache", nothing is fetched and neither store changes.
ServedFromCache(call) ==
    /\ response'.success = TRUE
    /\ response'.data.source = "cache"
    /\ response'.data.document = cache[CallUrl(call)]
    /\ steps' = <<"get_cached_document">>
    /\ UNCHANGED <<indexFile, indexFileOk, cache, cacheFile, cacheFileOk>>

\* The steps of a successful call that was not served from the cache.
FetchedInOrder ==
    /\ response'.data.source = "scraped"
    /\ steps' \in {FetchThenStore, <<"get_cached_document">> \o FetchThenStore}

\* C29: a scrape call that hits the cache returns the cached document with
\* source "cache", fetches nothing and leaves the index and the cache as they
\* are; a successful call with force_refresh or on a miss fetched, then wrote
\* the index, then the cache, and both stores hold an entry for the url.
C29_HitOrRefresh ==
    [][(op' = "call_tool" /\ ScrapeCalled(tool_call')) =>
          /\ CacheHit(tool_call') => ServedFromCache(tool_call')
          /\ (~CacheHit(tool_call') /\ response'.success = TRUE) =>
                /\ FetchedInOrder
                /\ CallUrl(tool_call') \in DOMAIN cache'
                /\ cacheFileOk' /\ CallUrl(tool_call') \in DOMAIN cacheFile'
                /\ indexFileOk' /\ EntriesFor(indexFile', CallUrl(tool_call')) # {}
      ]_vars

\* What holds of C29 with the index write unreported: the same, the index
\* holding the entry unless its write failed.
C29_HitOrRefreshCached ==
    [][(op' = "call_tool" /\ ScrapeCalled(tool_call')) =>
          /\ CacheHit(tool_call') => ServedFromCache(tool_call')
          /\ (~CacheHit(tool_call') /\ response'.success = TRUE) =>
                /\ FetchedInOrder
                /\ cache'[CallUrl(tool_call')] = ParsedFor(tool_call')
                /\ cacheFileOk' /\ cacheFile' = cache'
                /\ \/ /\ indexFileOk'
                      /\ indexFile' = NewIndex(indexFile, ParsedFor(tool_call'))
                   \/ indexFile' = indexFile /\ indexFileOk' = indexFileOk
                   \/ indexFile' = <<>> /\ ~indexFileOk'
      ]_vars

\* The case of C29_HitOrRefreshCached: a refresh was forced for a url the
\* cache held, and both stores hold the url afterwards.
C29_HitOrRefreshCached_Witness ==
    /\ op = "call_tool"
    /\ ScrapeCalled(tool_call)
    /\ ScrapeUrlRequest(tool_call.arguments).force_refresh
    /\ response.success = TRUE
    /\ steps = FetchThenStore
    /\ putKeys = {"u1", "u2"}
    /\ EntriesFor(indexFile, "u1") # {}
    /\ "u1" \in DOMAIN cacheFile

\* The other case: the call was served from the cache.
C29_Witness_Hit ==
    /\ op = "call_tool"
    /\ ScrapeCalled(tool_call)
    /\ response.success = TRUE
    /\ response.data.source = "cache"
    /\ steps = <<"get_cached_document">>

\* The handler's last call was the fetch or the parse, and it raised.
FetchOrParseFailed ==
    /\ fault' # NoneDict
    /\ steps' # <<>>
    /\ steps'[Len(steps')] \in {"scrape_article", "parse_content"}

\* Each file is as it was or holds the complete new content.
NothingPartlyWritten(call) ==
    /\ \/ indexFile' = indexFile /\ indexFileOk' = indexFileOk
       \/ indexFileOk' /\ indexFile' = NewIndex(indexFile, ParsedFor(call))
    /\ \/ cacheFile' = cacheFile /\ cacheFileOk' = cacheFileOk
       \/ cacheFileOk' /\ cacheFile' = cache'

\* C30: a scrape call whose fetch or parse failed returns success=False and
\* leaves the index and the cache as they were; whichever step failed, no
\* file is left partly written.
C30_FailureLeavesStores ==
    [][(op' = "call_tool" /\ ScrapeCalled(tool_call')) =>
          /\ FetchOrParseFailed =>
                /\ response'.success = FALSE
                /\ UNCHANGED <<indexFile, indexFileOk, cache, cacheFile, cacheFileOk>>
          /\ NothingPartlyWritten(tool_call')
      ]_vars

\* The half of C30 about the fetch and the parse.
C30_FetchOrParseFailure ==
    [][(op' = "call_tool" /\ ScrapeCalled(tool_call') /\ FetchOrParseFailed) =>
          /\ response'.success = FALSE
          /\ response'.error = FString(str(fault'))
          /\ UNCHANGED <<indexFile, indexFileOk, cache, cacheFile, cacheFileOk>>
      ]_vars

\* The case of C30_FetchOrParseFailure: with the url in both stores, a forced
\* refresh failed in the parse.
C30_FetchOrParseFailure_Witness ==
    /\ op = "call_tool"
    /\ ScrapeCalled(tool_call)
    /\ steps = <<"scrape_article", "parse_content">>
    /\ fault # NoneDict
    /\ response.success = FALSE
    /\ EntriesFor(indexFile, CallUrl(tool_call)) # {}
    /\ CallUrl(tool_call) \in DOMAIN cache

\* The case the claim allows: the cache save failed after the index was
\* written, and the index holds the url while the cache file does not.
C30_Witness_Diverged ==
    /\ op = "call_tool"
    /\ ScrapeCalled(tool_call)
    /\ response.success = FALSE
    /\ steps[Len(steps)] = "cache_document"
    /\ indexFileOk /\ EntriesFor(indexFile, CallUrl(tool_call)) # {}
    /\ CallUrl(tool_call) \notin DOMAIN cacheFile
    /\ CallUrl(tool_call) \in DOMAIN cache

====
